---- MODULE Spec2Model ----
(***************************************************************************)
(* Trade execution control plane of autosig: environment flags, the mode   *)
(* manager, the execution router and its executors, the dedupe ledger, the *)
(* preflight gate, the manual approval handler and the auto-mode           *)
(* controller (worker loop and auto_tick).                                 *)
(*                                                                         *)
(* Encoding conventions                                                    *)
(*   - an Optional[float]/Optional[int] is a sequence: <<>> is None,       *)
(*     <<x>> is the value x;                                               *)
(*   - an Optional[str] is a string, "" standing for None/empty (the code  *)
(*     only tests these for truthiness);                                   *)
(*   - a date is a day number, an hour bucket is a (day, hour) pair;       *)
(*   - prices and notional amounts are in cents, size_pct is in percent.   *)
(***************************************************************************)
EXTENDS Integers, Sequences, FiniteSets, TLC

VARIABLES
    env,                 \* process environment: raw strings of the safety flags, the caps
    requested,           \* settings file: REQUESTED_EXECUTION_MODE
    mergeSide,           \* which side of the unresolved merge in auto_mode.py is in effect
    autoEnabled,         \* auto_mode._auto_enabled
    safetyChecksPassed,  \* auto_mode._safety_checks_passed
    autoThread,          \* auto_mode._auto_thread is not None
    stopEvent,           \* auto_mode._stop_event
    workers,             \* number of _auto_loop threads still running
    now,                 \* wall clock: [day, hour]
    counters,            \* data/auto_counters.json
    alerts,              \* logs/alerts_parsed.jsonl, oldest first
    executed,            \* data/executed_signals.jsonl (the dedupe ledger), oldest first
    positions,           \* data/paper_open_positions.jsonl, oldest first
    brokerOrders,        \* callers whose order reached the Tradier client's place_* operations
    execd,               \* signal identities for which execute_trade has been called
    caches,              \* paper_positions._positions_cache / _cache_loaded of each process
    inflight,            \* runs of the execution path between their checks and their order
    loops,               \* position of each _auto_loop thread in its code
    daily,               \* auto_mode._daily_metrics and the summaries emitted so far
    risk,                \* the RiskManager object of risk.py
    state,               \* state.json: the TradeState of main.run_polling_loop
    processCalls,        \* calls of process_signal so far, per alert hash
    last                 \* what the last operation did and returned

vars == <<env, requested, mergeSide, autoEnabled, safetyChecksPassed, autoThread,
          stopEvent, workers, now, counters, alerts, executed, positions,
          brokerOrders, execd, caches, inflight, loops, daily, risk, state,
          processCalls, last>>

-----------------------------------------------------------------------------
(* Bounds of the model *)

MaxAlerts == 2      \* length of the alerts file
MaxDay == 2         \* calendar days the clock runs through
MaxHour == 1        \* last hour bucket of a day (hours 0..MaxHour)
MaxWorkers == 2     \* worker loops that may be alive at once
MaxPositions == 2   \* entries of the paper position ledger

None == <<>>
Some(x) == <<x>>
IsNone(o) == o = <<>>
Val(o) == o[1]
\* The processes that import paper_positions, each with its own module
\* globals: the controller worker and a request handler.
Procs == {"worker", "handler"}
NoCaches == [pr \in Procs |-> [loaded |-> FALSE, items |-> <<>>]]

\* str.upper over the tickers the model uses
Upper(s) ==
    IF s = "spy" THEN "SPY" ELSE IF s = "qqq" THEN "QQQ" ELSE s

Min(a, b) == IF a < b THEN a ELSE b

-----------------------------------------------------------------------------
(* Environment flags *)

\* Raw values an environment variable is given; "unset" is an absent variable.
EnvValues == {"unset", "true", "false", "1"}

\* config.py / router.py / preflight.py: os.getenv(KEY, default).lower() == "true"
ConfigFlag(raw, default) == (IF raw = "unset" THEN default ELSE raw) = "true"

\* mode_manager._get_env_bool: an unset or empty value is the default,
\* anything else is true iff it is one of true/1/yes/on
GetEnvBool(raw, default) ==
    IF raw \in {"unset", ""} THEN default ELSE raw \in {"true", "1", "yes", "on"}

DRY_RUN == ConfigFlag(env.DRY_RUN, "true")
LIVE_TRADING == ConfigFlag(env.LIVE_TRADING, "false")

\* settings_store: BROKER_MODE is kept only if it is in VALID_BROKER_MODES
VALID_BROKER_MODES == {"TRADIER_ONLY"}
BrokerModeFromEnv(raw) ==
    IF raw # "" /\ raw \in VALID_BROKER_MODES THEN raw ELSE "TRADIER_ONLY"
EXECUTION_BROKER_MODE ==
    CHOOSE m \in {BrokerModeFromEnv(raw) : raw \in {"", "TRADIER_ONLY", "MULTI", "PAPER"}} : TRUE

-----------------------------------------------------------------------------
(* Mode manager *)

\* a faulty is_live_allowed that asks for only one of the two conditions
IsLiveAllowedBuggy(e) ==
    GetEnvBool(e.LIVE_TRADING, FALSE) \/ ~GetEnvBool(e.DRY_RUN, TRUE)

IsLiveAllowed(e) ==
    GetEnvBool(e.LIVE_TRADING, FALSE) /\ ~GetEnvBool(e.DRY_RUN, TRUE)

IsDualAllowed(e) ==
    IF ~IsLiveAllowed(e) THEN FALSE ELSE GetEnvBool(e.ALLOW_DUAL_MODE, FALSE)

IsAutoLiveEnabled(e) == GetEnvBool(e.AUTO_LIVE_ENABLED, FALSE)

VALID_MODES == {"paper", "live", "dual"}

GetRequestedMode(setting) == IF setting \notin VALID_MODES THEN "paper" ELSE setting

\* the mode decision without the for_auto gate
EffectiveModeNoAutoGate(req, liveAllowed, dualAllowed, autoLive, forAuto) ==
    IF req = "dual"
    THEN (IF dualAllowed THEN "dual" ELSE IF liveAllowed THEN "live" ELSE "paper")
    ELSE IF req = "live"
    THEN (IF liveAllowed THEN "live" ELSE "paper")
    ELSE "paper"

EffectiveMode(req, liveAllowed, dualAllowed, autoLive, forAuto) ==
    IF forAuto /\ ~autoLive THEN "paper"
    ELSE IF req = "dual"
    THEN (IF dualAllowed THEN "dual" ELSE IF liveAllowed THEN "live" ELSE "paper")
    ELSE IF req = "live"
    THEN (IF liveAllowed THEN "live" ELSE "paper")
    ELSE "paper"

GetEffectiveExecutionMode(e, setting, forAuto) ==
    [requested |-> GetRequestedMode(setting),
     effective |-> EffectiveMode(GetRequestedMode(setting), IsLiveAllowed(e),
                                 IsDualAllowed(e), IsAutoLiveEnabled(e), forAuto),
     live_allowed |-> IsLiveAllowed(e),
     dual_allowed |-> IsDualAllowed(e),
     auto_live_enabled |-> IsAutoLiveEnabled(e)]

-----------------------------------------------------------------------------
(* Parsed signals (the lines of logs/alerts_parsed.jsonl) *)

\* A leg of a parsed signal; expiration is None or <<day>>.
Leg(side, strike, otype, exp) ==
    [side |-> side, quantity |-> 1, strike |-> strike, option_type |-> otype,
     expiration |-> exp]

\* parsed_signal of an alert. kw abstracts raw_text by the keyword it carries:
\* "exit" is in the exit keyword lists of both classify_signal_type and
\* _determine_action, "trim" only in that of classify_signal_type, "entry" is
\* an entry keyword, "" is no keyword.  limit_min/limit_max are 0 when absent.
Parsed(ticker, strategy, kw, legs, lmin, lmax, sizePct) ==
    [ticker |-> ticker, strategy |-> strategy, kw |-> kw, legs |-> legs,
     limit_min |-> lmin, limit_max |-> lmax, limit_kind |-> "DEBIT",
     quantity |-> 1, size_pct |-> sizePct]

\* An entry of the alerts file; parsed_signal is <<>> (an empty dict) or <<p>>.
Alert(postId, classification, parsed) ==
    [post_id |-> postId, classification |-> classification, parsed_signal |-> parsed]

FarExpiry == MaxDay + 1     \* an expiration day after every day of the clock

\* The alerts the feed may deliver.
AlertSamples ==
    { Alert("p1", "SIGNAL", Some(Parsed("SPY", "LONG_STOCK", "", <<>>, 0, 0, Some(2)))),
      Alert("p2", "SIGNAL", Some(Parsed("SPY", "CALL", "",
                  <<Leg("BUY", 500, "CALL", Some(FarExpiry))>>, 0, 200, None))),
      Alert("p3", "SIGNAL", Some(Parsed("BTC", "LONG_STOCK", "", <<>>, 0, 0, Some(2)))) }

PostIds == {a.post_id : a \in AlertSamples}

ExitStrategies == {"EXIT"}
ClassifyExitKeywords == {"exit", "trim"}
ActionExitKeywords == {"exit"}
EntryStrategies ==
    {"CALL_DEBIT_SPREAD", "PUT_DEBIT_SPREAD", "CALL_CREDIT_SPREAD", "PUT_CREDIT_SPREAD",
     "IRON_CONDOR", "LONG_STOCK", "LONG_OPTION", "CALL", "PUT"}
\* strategies whose name contains the given word
DebitStrategies == {"CALL_DEBIT_SPREAD", "PUT_DEBIT_SPREAD"}
CreditStrategies == {"CALL_CREDIT_SPREAD", "PUT_CREDIT_SPREAD"}
SpreadStrategies == DebitStrategies \cup CreditStrategies
OptionWordStrategies == SpreadStrategies \cup {"CALL", "PUT", "LONG_OPTION"}

ClassifySignalType(p) ==
    IF p.strategy \in ExitStrategies THEN "EXIT"
    ELSE IF p.kw \in ClassifyExitKeywords THEN "EXIT"
    ELSE IF p.strategy \in EntryStrategies THEN "ENTRY"
    ELSE IF p.kw = "entry" THEN "ENTRY"
    ELSE IF p.legs # <<>> /\ p.strategy \in OptionWordStrategies THEN "ENTRY"
    ELSE "UNKNOWN"

HasCompleteLegDetails(p) ==
    /\ p.legs # <<>>
    /\ \A i \in 1..Len(p.legs) :
          /\ p.legs[i].strike > 0
          /\ p.legs[i].option_type # ""
          /\ ~IsNone(p.legs[i].expiration)

\* _determine_action; the modelled exit texts carry no credit or
\* buy-to-close keyword
DetermineAction(p) ==
    IF p.kw \in ActionExitKeywords \/ p.strategy = "EXIT" THEN "SELL_TO_CLOSE"
    ELSE IF p.strategy \in {"LONG_STOCK", "LONG_OPTION"} THEN "BUY_TO_OPEN"
    ELSE IF p.strategy \in DebitStrategies THEN "BUY_TO_OPEN"
    ELSE IF p.strategy \in CreditStrategies THEN "SELL_TO_OPEN"
    ELSE "BUY_TO_OPEN"

DetermineInstrumentType(p) ==
    IF p.strategy = "LONG_STOCK" THEN "STOCK"
    ELSE IF Len(p.legs) >= 2 THEN "SPREAD"
    ELSE IF Len(p.legs) = 1 \/ p.strategy \in {"LONG_OPTION", "EXIT"} THEN "OPTION"
    ELSE IF p.strategy \in SpreadStrategies THEN "SPREAD"
    ELSE IF p.strategy \in OptionWordStrategies THEN "OPTION"
    ELSE "STOCK"

DetermineLimitPrice(p) ==
    IF p.strategy = "EXIT"
    THEN (IF p.limit_min > 0 THEN Some(p.limit_min)
          ELSE IF p.limit_max > 0 THEN Some(p.limit_max) ELSE None)
    ELSE IF (p.limit_kind = "DEBIT" \/ p.strategy \in DebitStrategies) /\ p.limit_max > 0
    THEN Some(p.limit_max)
    ELSE IF (p.limit_kind = "DEBIT" \/ p.strategy \in DebitStrategies) /\ p.limit_min > 0
    THEN Some(p.limit_min)
    ELSE IF ~(p.limit_kind = "DEBIT" \/ p.strategy \in DebitStrategies)
            /\ (p.limit_kind = "CREDIT" \/ p.strategy \in CreditStrategies)
            /\ p.limit_min > 0
    THEN Some(p.limit_min)
    ELSE IF p.limit_max > 0 THEN Some(p.limit_max)
    ELSE IF p.limit_min > 0 THEN Some(p.limit_min)
    ELSE None

\* TradeIntent; metadata is flattened to the two keys the executors and the
\* preflight read (signal_type, matched_position_id).
BuildTradeIntent(p, mode) ==
    [execution_mode |-> mode,
     instrument_type |-> DetermineInstrumentType(p),
     underlying |-> Upper(p.ticker),
     action |-> DetermineAction(p),
     order_type |-> IF p.limit_min > 0 \/ p.limit_max > 0 THEN "LIMIT" ELSE "MARKET",
     limit_price |-> DetermineLimitPrice(p),
     stop_price |-> None,
     limit_min |-> IF p.limit_min > 0 THEN Some(p.limit_min) ELSE None,
     limit_max |-> IF p.limit_max > 0 THEN Some(p.limit_max) ELSE None,
     quantity |-> IF p.quantity > 0 THEN p.quantity ELSE 1,
     legs |-> p.legs,
     signal_type |-> ClassifySignalType(p),
     matched_position_id |-> 0]

GetEffectiveLimitPrice(intent) ==
    IF ~IsNone(intent.limit_price) THEN intent.limit_price
    ELSE IF ~IsNone(intent.limit_max) THEN intent.limit_max
    ELSE None

-----------------------------------------------------------------------------
(* Paper position ledger; position ids are 1, 2, ... in order of opening,   *)
(* 0 stands for "no position".                                               *)

\* the list of (expiration, strike, type) of a list of legs; an absent
\* expiration reads as the empty string in _legs_match
LegKeys(legs) ==
    [i \in 1..Len(legs) |->
        <<legs[i].expiration, legs[i].strike, legs[i].option_type>>]

\* the order of Python tuples on these keys; the empty string sorts before
\* every date, "CALL" before "PUT"
KeyLess(a, b) ==
    LET ea == IF IsNone(a[1]) THEN 0 - 1 ELSE Val(a[1])
        eb == IF IsNone(b[1]) THEN 0 - 1 ELSE Val(b[1])
    IN \/ ea < eb
       \/ ea = eb /\ a[2] < b[2]
       \/ ea = eb /\ a[2] = b[2] /\ a[3] = "CALL" /\ b[3] = "PUT"

\* sorted(keys): position of each key = number of keys before it
RECURSIVE InsertKey(_, _)
InsertKey(k, sorted) ==
    IF sorted = <<>> THEN <<k>>
    ELSE IF KeyLess(sorted[1], k) THEN <<sorted[1]>> \o InsertKey(k, Tail(sorted))
    ELSE <<k>> \o sorted

RECURSIVE SortKeys(_)
SortKeys(keys) ==
    IF keys = <<>> THEN <<>> ELSE InsertKey(keys[1], SortKeys(Tail(keys)))

\* a variant of _legs_match that compares the lists as given
LegsMatchInOrder(posLegs, signalLegs) ==
    /\ posLegs # <<>> /\ signalLegs # <<>>
    /\ Len(posLegs) = Len(signalLegs)
    /\ LegKeys(posLegs) = LegKeys(signalLegs)

LegsMatch(posLegs, signalLegs) ==
    /\ posLegs # <<>> /\ signalLegs # <<>>
    /\ Len(posLegs) = Len(signalLegs)
    /\ SortKeys(LegKeys(posLegs)) = SortKeys(LegKeys(signalLegs))

\* a variant of get_open_positions_for_ticker that forgets the status
PositionsForTickerAnyStatus(ticker) ==
    {i \in 1..Len(positions) : Upper(positions[i].underlying) = Upper(ticker)}

\* a variant of get_open_positions_for_ticker that forgets the ticker
OpenPositionsAnyTicker(ticker) ==
    {i \in 1..Len(positions) : positions[i].status = "OPEN"}

OpenPositionsForTicker(ticker) ==
    {i \in 1..Len(positions) :
        positions[i].status = "OPEN" /\ Upper(positions[i].underlying) = Upper(ticker)}

\* positions are kept in order of opening: the most recently opened one of a
\* set of indices is the largest
Newest(S) == CHOOSE i \in S : \A j \in S : j <= i

\* index of the matched position, 0 when there is none
FindOpenPositionForExit(p) ==
    IF Upper(p.ticker) = "" \/ OpenPositionsForTicker(Upper(p.ticker)) = {} THEN 0
    ELSE LET open == OpenPositionsForTicker(Upper(p.ticker))
             exact == {i \in open : LegsMatch(positions[i].legs, p.legs)}
         IN IF p.legs # <<>> /\ exact # {} THEN Newest(exact) ELSE Newest(open)

ReverseLegs(legs) ==
    [i \in 1..Len(legs) |->
        [legs[i] EXCEPT !.side = IF legs[i].side = "BUY" THEN "SELL" ELSE "BUY"]]

BuildCloseIntentFromPosition(pos, p, mode) ==
    LET lp == IF p.limit_min > 0 THEN Some(p.limit_min)
              ELSE IF p.limit_max > 0 THEN Some(p.limit_max) ELSE None
    IN [execution_mode |-> mode,
        instrument_type |-> pos.instrument_type,
        underlying |-> Upper(pos.underlying),
        action |-> IF pos.open_action \in {"SELL", "SELL_TO_OPEN", "SELL_TO_CLOSE"}
                   THEN "BUY_TO_CLOSE" ELSE "SELL_TO_CLOSE",
        order_type |-> IF IsNone(lp) THEN "MARKET" ELSE "LIMIT",
        limit_price |-> lp,
        stop_price |-> None,
        limit_min |-> None,
        limit_max |-> None,
        quantity |-> pos.quantity,
        legs |-> ReverseLegs(pos.legs),
        signal_type |-> "EXIT",
        matched_position_id |-> pos.position_id]

-----------------------------------------------------------------------------
(* Dedupe ledger *)

IsExecuted(postId) ==
    IF postId = "" THEN FALSE
    ELSE \E i \in 1..Len(executed) : executed[i].post_id = postId

\* variant: the file is rewritten with the new record only
MarkExecutedTruncating(postId, mode, status) ==
    IF postId = "" THEN executed
    ELSE <<[post_id |-> postId, execution_mode |-> mode, result_status |-> status]>>

\* mark_executed without its guard on the empty identity
MarkExecutedAnyKey(postId, mode, status) ==
    Append(executed, [post_id |-> postId, execution_mode |-> mode,
                      result_status |-> status])

\* the ledger after mark_executed
MarkExecuted(postId, mode, status) ==
    IF postId = "" THEN executed
    ELSE Append(executed, [post_id |-> postId, execution_mode |-> mode,
                           result_status |-> status])

RecordsFor(postId) == Cardinality({i \in 1..Len(executed) : executed[i].post_id = postId})

-----------------------------------------------------------------------------
(* Preflight gate *)

MAX_RISK_PCT_PER_TRADE == 5
ALLOW_0DTE_SPX == FALSE
UnsupportedAssets == {"BTC", "ETH", "DOGE", "SOL", "/ES", "/NQ", "/CL", "/GC"}

\* an entry of the checks list; the summary text is abstracted to a tag and,
\* for a leg, its number (0 otherwise)
Check(name, ok, tag, n) == [name |-> name, ok |-> ok, summary |-> <<tag, n>>]

\* a leg dict lacks a field: expiration None or "", strike None (a negative
\* number in the model), option_type or side None or ""
LegLacks(leg) ==
    \/ IsNone(leg.expiration)
    \/ leg.strike < 0
    \/ leg.option_type = ""
    \/ leg.side = ""

\* each check function appends its entry to the list it is given

\* a variant of check_completeness that does not look at the legs
CheckCompletenessNoLegs(ti, checks) ==
    IF ti.underlying = ""
    THEN Append(checks, Check("completeness", FALSE, "Missing underlying", 0))
    ELSE Append(checks, Check("completeness", TRUE, "Order complete", 0))

CheckCompleteness(ti, checks) ==
    IF ti.instrument_type = "STOCK"
    THEN IF ti.underlying = ""
         THEN Append(checks, Check("completeness", FALSE, "Missing ticker for stock/ETF order", 0))
         ELSE IF ti.quantity < 1
         THEN Append(checks, Check("completeness", FALSE, "Invalid quantity for stock/ETF order", 0))
         ELSE Append(checks, Check("completeness", TRUE, "Stock order complete", 0))
    ELSE IF ti.instrument_type \in {"OPTION", "SPREAD"}
    THEN IF ti.underlying = ""
         THEN Append(checks, Check("completeness", FALSE, "Missing underlying for option order", 0))
         ELSE IF ti.legs = <<>> /\ ti.signal_type = "EXIT" /\ ti.matched_position_id = 0
         THEN Append(checks, Check("completeness", FALSE,
                                   "EXIT signal has no legs and no matched position", 0))
         ELSE IF \E i \in 1..Len(ti.legs) : LegLacks(ti.legs[i])
         THEN LET k == CHOOSE i \in 1..Len(ti.legs) :
                          /\ LegLacks(ti.legs[i])
                          /\ \A j \in 1..(i - 1) : ~LegLacks(ti.legs[j])
                  leg == ti.legs[k]
              IN IF IsNone(leg.expiration)
                 THEN Append(checks, Check("completeness", FALSE, "Leg missing expiration", k))
                 ELSE IF leg.strike < 0
                 THEN Append(checks, Check("completeness", FALSE, "Leg missing strike", k))
                 ELSE IF leg.option_type = ""
                 THEN Append(checks, Check("completeness", FALSE, "Leg missing option type", k))
                 ELSE Append(checks, Check("completeness", FALSE, "Leg missing side", k))
         ELSE Append(checks, Check("completeness", TRUE, "Option order complete", Len(ti.legs)))
    ELSE Append(checks, Check("completeness", FALSE, "Unknown instrument type", 0))

CheckSupportedAssets(ti, checks) ==
    IF ti.instrument_type \notin {"STOCK", "OPTION", "SPREAD"}
    THEN Append(checks, Check("supported_asset", FALSE, "Unsupported instrument type", 0))
    ELSE IF Upper(ti.underlying) \in UnsupportedAssets
    THEN Append(checks, Check("supported_asset", FALSE, "Asset not supported", 0))
    ELSE Append(checks, Check("supported_asset", TRUE, "Asset supported", 0))

IsSpx0Dte(ti) ==
    /\ ti.underlying \in {"SPX", "$SPX", "SPXW"}
    /\ \E i \in 1..Len(ti.legs) : ti.legs[i].expiration = Some(now.day)

\* risk mode is forced to "aggressive" by settings_store.load_settings
CheckRiskMode(ti, checks) ==
    IF ti.signal_type = "EXIT"
    THEN Append(checks, Check("risk_mode", TRUE, "EXIT signal - always allowed", 0))
    ELSE IF IsSpx0Dte(ti) /\ ~ALLOW_0DTE_SPX
    THEN Append(checks, Check("risk_mode", FALSE, "0DTE SPX requires ALLOW_0DTE_SPX=true", 0))
    ELSE Append(checks, Check("risk_mode", TRUE, "Risk mode allows this trade", 0))

CheckRiskControls(p, checks) ==
    IF ~IsNone(p.size_pct) /\ Val(p.size_pct) > MAX_RISK_PCT_PER_TRADE
    THEN Append(checks, Check("risk_per_trade", FALSE, "Trade risk exceeds max", 0))
    ELSE Append(checks, Check("risk_per_trade", TRUE, "Trade risk within limit", 0))

\* expirations are days, so none has an invalid format
CheckDteGuard(ti, checks) ==
    IF Upper(ti.underlying) \notin {"SPX", "SPXW"}
    THEN Append(checks, Check("dte_guard", TRUE, "DTE guard not applicable (non-SPX)", 0))
    ELSE IF ti.legs = <<>>
    THEN Append(checks, Check("dte_guard", TRUE, "DTE guard: no legs to check", 0))
    ELSE IF ~ALLOW_0DTE_SPX /\ \E i \in 1..Len(ti.legs) : ti.legs[i].expiration = Some(now.day)
    THEN Append(checks, Check("dte_guard", FALSE, "0DTE SPX not allowed",
                              CHOOSE i \in 1..Len(ti.legs) :
                                  /\ ti.legs[i].expiration = Some(now.day)
                                  /\ \A j \in 1..(i - 1) : ti.legs[j].expiration # Some(now.day)))
    ELSE Append(checks, Check("dte_guard", TRUE, "DTE guard passed", 0))

CheckModeGuard(mode, checks) ==
    IF mode = "live"
    THEN IF ~IsLiveAllowed(env)
         THEN Append(checks, Check("mode_guard", FALSE, "LIVE trading blocked", 0))
         ELSE Append(checks, Check("mode_guard", TRUE, "Live trading is enabled and allowed", 0))
    ELSE IF mode = "dual"
    THEN IF GetEffectiveExecutionMode(env, requested, FALSE).effective # "dual"
         THEN Append(checks, Check("mode_guard", FALSE, "DUAL mode not allowed", 0))
         ELSE Append(checks, Check("mode_guard", TRUE, "Dual mode is enabled and allowed", 0))
    ELSE Append(checks, Check("mode_guard", TRUE, "Paper trading mode (always allowed)", 0))

CheckDedupe(postId, checks) ==
    IF postId = ""
    THEN Append(checks, Check("dedupe", TRUE, "No post_id to dedupe", 0))
    ELSE IF IsExecuted(postId)
    THEN Append(checks, Check("dedupe", FALSE, "Signal already executed", 0))
    ELSE Append(checks, Check("dedupe", TRUE, "Signal not previously executed", 0))

\* a variant of preflight_check that stops at the first failed check
PreflightChecksUntilFailure(p, ti, mode, postId) ==
    LET c1 == CheckCompleteness(ti, <<>>)
        c2 == IF c1[Len(c1)].ok THEN CheckSupportedAssets(ti, c1) ELSE c1
        c3 == IF c2[Len(c2)].ok THEN CheckRiskMode(ti, c2) ELSE c2
        c4 == IF c3[Len(c3)].ok THEN CheckRiskControls(p, c3) ELSE c3
        c5 == IF c4[Len(c4)].ok THEN CheckDteGuard(ti, c4) ELSE c4
        c6 == IF c5[Len(c5)].ok THEN CheckModeGuard(mode, c5) ELSE c5
    IN IF c6[Len(c6)].ok THEN CheckDedupe(postId, c6) ELSE c6

\* the checks list after preflight_check has run its seven checks
PreflightChecks(p, ti, mode, postId) ==
    CheckDedupe(postId,
      CheckModeGuard(mode,
        CheckDteGuard(ti,
          CheckRiskControls(p,
            CheckRiskMode(ti,
              CheckSupportedAssets(ti,
                CheckCompleteness(ti, <<>>)))))))

\* preflight_check: blocked_reason is None or <<summary>>
PreflightCheck(p, ti, mode, postId) ==
    LET checks == PreflightChecks(p, ti, mode, postId)
        failed == SelectSeq(checks, LAMBDA c : ~c.ok)
        allOk == \A i \in 1..Len(checks) : checks[i].ok
    IN [ok |-> allOk,
        checks |-> checks,
        blocked_reason |-> IF ~allOk /\ failed # <<>> THEN Some(failed[1].summary) ELSE None]

PreflightOk(p, ti, mode, postId) == PreflightCheck(p, ti, mode, postId).ok

\* review_queue.build_intent_and_preflight: trade_intent is None or <<intent>>
BuildIntentAndPreflight(entry, mode) ==
    IF entry.classification # "SIGNAL" \/ entry.parsed_signal = <<>>
    THEN [trade_intent |-> None, preflight_ok |-> TRUE]
    ELSE LET p == Val(entry.parsed_signal)
             modeLiteral == IF mode = "paper" THEN "PAPER" ELSE "LIVE"
             pos == FindOpenPositionForExit(p)
             ti == IF ClassifySignalType(p) = "EXIT" /\ ~HasCompleteLegDetails(p)
                   THEN (IF pos = 0 THEN None
                         ELSE Some(BuildCloseIntentFromPosition(positions[pos], p, modeLiteral)))
                   ELSE Some(BuildTradeIntent(p, modeLiteral))
         IN [trade_intent |-> ti,
             preflight_ok |-> IF IsNone(ti) THEN TRUE
                              ELSE PreflightOk(p, Val(ti), mode, entry.post_id)]

\* The callers rebuild the TradeIntent from the dict of _intent_to_dict,
\* which carries neither limit_min, limit_max nor stop_price.
IntentFromDict(ti, mode) ==
    [ti EXCEPT !.execution_mode = mode, !.limit_min = None, !.limit_max = None,
               !.stop_price = None]

-----------------------------------------------------------------------------
(* Executors.  An execution outcome is the ExecutionResult (status, broker, *)
(* whether an order id is set, fill price in cents, filled quantity), with  *)
(* "placed": the call reached the body of a place_* operation of the        *)
(* Tradier client, and "positions": the position ledger afterwards.         *)

Result(status, broker, hasId, fillPrice, filledQty, placed, ledger) ==
    [status |-> status, broker |-> broker, has_order_id |-> hasId,
     fill_price |-> fillPrice, filled_quantity |-> filledQty,
     placed |-> placed, positions |-> ledger, counted |-> FALSE]

\* a variant of validate_intent that looks at the underlying only
ValidateUnderlyingOnly(intent) == intent.underlying # ""

\* BaseExecutor.validate_intent
ValidateIntent(intent) ==
    /\ intent.underlying # ""
    /\ intent.quantity > 0
    /\ ~(intent.order_type = "LIMIT" /\ IsNone(GetEffectiveLimitPrice(intent)))
    /\ ~(intent.order_type \in {"STOP", "STOP_LIMIT"} /\ IsNone(intent.stop_price))
    /\ ~(intent.order_type = "STOP_LIMIT" /\ IsNone(GetEffectiveLimitPrice(intent)))

\* What the world outside answers when the executor asks for the Tradier
\* client and posts an order: no API token is configured; the order response
\* carries an id; it carries none; the request fails (TradierError).
BrokerReplies == {"no_token", "id", "no_id", "http_error"}

\* TradierExecutor.client raises when config.DRY_RUN is set
ClientBlocked(dryRun) == dryRun

\* _execute_stock_order passes stop_price= to place_stock_order, which has no
\* such parameter: the call raises TypeError before the operation runs
TradierStockOrder(intent, reply) ==
    Result("ERROR", "tradier", FALSE, None, None, FALSE, positions)

\* a variant of _execute_option_order without the check of the order id
TradierOptionOrderAnyId(intent, reply) ==
    IF intent.legs = <<>> \/ intent.order_type \in {"STOP", "STOP_LIMIT"}
    THEN Result("REJECTED", "tradier", FALSE, None, None, FALSE, positions)
    ELSE IF ClientBlocked(DRY_RUN) \/ reply = "no_token"
    THEN Result("ERROR", "tradier", FALSE, None, None, FALSE, positions)
    ELSE Result("SUBMITTED", "tradier", reply = "id", None, None, TRUE, positions)

TradierOptionOrder(intent, reply) ==
    IF intent.legs = <<>> \/ intent.order_type \in {"STOP", "STOP_LIMIT"}
    THEN Result("REJECTED", "tradier", FALSE, None, None, FALSE, positions)
    ELSE IF ClientBlocked(DRY_RUN) \/ reply = "no_token"
    THEN Result("ERROR", "tradier", FALSE, None, None, FALSE, positions)
    ELSE IF reply = "id"
    THEN Result("SUBMITTED", "tradier", TRUE, None, None, TRUE, positions)
    ELSE Result("ERROR", "tradier", FALSE, None, None, TRUE, positions)

\* TradierExecutor.execute; a SPREAD builds ExecutionResult(status="SKIPPED"),
\* which the model's Literal rejects, and the exception handler answers ERROR
TradierExecute(intent, reply) ==
    IF ~ValidateIntent(intent)
    THEN Result("REJECTED", "tradier", FALSE, None, None, FALSE, positions)
    ELSE IF intent.instrument_type = "STOCK" THEN TradierStockOrder(intent, reply)
    ELSE IF intent.instrument_type = "OPTION" THEN TradierOptionOrder(intent, reply)
    ELSE Result("ERROR", "tradier", FALSE, None, None, FALSE, positions)

\* PaperExecutor._calculate_fill_price, in cents
CalculateFillPrice(intent) ==
    IF intent.order_type = "LIMIT" /\ ~IsNone(intent.limit_price) /\ Val(intent.limit_price) # 0
    THEN Val(intent.limit_price)
    ELSE IF ~IsNone(intent.limit_max) /\ ~IsNone(intent.limit_min)
            /\ Val(intent.limit_max) > 0 /\ Val(intent.limit_min) > 0
    THEN (Val(intent.limit_max) + Val(intent.limit_min)) \div 2
    ELSE IF ~IsNone(intent.limit_max) /\ Val(intent.limit_max) > 0 THEN Val(intent.limit_max)
    ELSE IF ~IsNone(intent.limit_min) /\ Val(intent.limit_min) > 0 THEN Val(intent.limit_min)
    ELSE IF intent.instrument_type = "STOCK" THEN 10000
    ELSE IF intent.instrument_type = "SPREAD" THEN 150
    ELSE 250

\* position ids are uuid4 values: every new one differs from all ids in
\* the ledger file and in the caches of the processes
IdsOf(items) == {items[i].position_id : i \in 1..Len(items)}

FreshId ==
    LET used == IdsOf(positions) \cup UNION {IdsOf(caches[pr].items) : pr \in Procs}
    IN IF used = {} THEN 1 ELSE 1 + (CHOOSE m \in used : \A n \in used : n <= m)

\* the PaperPosition that _create_open_position builds
NewPosition(id, intent) ==
    [position_id |-> id, status |-> "OPEN", closed_at |-> None,
     source_post_id |-> "", underlying |-> intent.underlying,
     instrument_type |-> intent.instrument_type, legs |-> intent.legs,
     quantity |-> intent.quantity, open_action |-> intent.action,
     close_intent |-> None]

\* the close_intent dict that _close_position builds
CloseIntentOf(intent) ==
    [action |-> intent.action, order_type |-> intent.order_type,
     limit_price |-> intent.limit_price, legs |-> intent.legs]

\* a variant of _create_open_position that appends nothing
CreateNoPosition(intent) == positions

\* PaperExecutor._create_open_position + append_open_position, in a process
\* whose cache agrees with the ledger file
CreateOpenPosition(intent) == Append(positions, NewPosition(FreshId, intent))

\* a variant of mark_position_closed that does not look at the status
MarkPositionClosedAnyStatus(items, positionId, closeIntent) ==
    LET hit == {i \in 1..Len(items) : items[i].position_id = positionId}
    IN IF hit = {} THEN [ok |-> FALSE, items |-> items]
       ELSE LET k == CHOOSE i \in hit : \A j \in hit : i <= j
            IN [ok |-> TRUE,
                items |-> [items EXCEPT ![k].status = "CLOSED",
                                        ![k].closed_at = Some(now),
                                        ![k].close_intent = Some(closeIntent)]]

\* paper_positions.mark_position_closed on the list of positions of the
\* calling process: the first OPEN position with the id is closed
MarkPositionClosed(items, positionId, closeIntent) ==
    LET hit == {i \in 1..Len(items) :
                  items[i].position_id = positionId /\ items[i].status = "OPEN"}
    IN IF hit = {} THEN [ok |-> FALSE, items |-> items]
       ELSE LET k == CHOOSE i \in hit : \A j \in hit : i <= j
            IN [ok |-> TRUE,
                items |-> [items EXCEPT ![k].status = "CLOSED",
                                        ![k].closed_at = Some(now),
                                        ![k].close_intent = Some(closeIntent)]]

\* PaperExecutor._close_position
ClosePosition(positionId, intent) ==
    MarkPositionClosed(positions, positionId, CloseIntentOf(intent)).items

\* intent.metadata.get("signal_type", "ENTRY"): an intent whose metadata
\* holds no signal_type (signal_type "") counts as ENTRY
MetadataSignalType(intent) ==
    IF intent.signal_type = "" THEN "ENTRY" ELSE intent.signal_type

\* PaperExecutor.execute reading the signal type without the ENTRY default
PaperExecuteNoDefault(intent) ==
    IF ~ValidateIntent(intent)
    THEN Result("REJECTED", "paper_signal_replay", FALSE, None, None, FALSE, positions)
    ELSE [Result("SIMULATED", "paper_signal_replay", TRUE,
                Some(CalculateFillPrice(intent)), Some(intent.quantity), FALSE,
                IF intent.signal_type = "ENTRY" \/ intent.action \in {"BUY_TO_OPEN", "SELL_TO_OPEN"}
                THEN CreateOpenPosition(intent)
                ELSE IF (intent.signal_type = "EXIT"
                         \/ intent.action \in {"BUY_TO_CLOSE", "SELL_TO_CLOSE"})
                        /\ intent.matched_position_id # 0
                THEN ClosePosition(intent.matched_position_id, intent)
                ELSE positions)
          EXCEPT !.counted = TRUE]

\* PaperExecutor.execute
PaperExecute(intent) ==
    IF ~ValidateIntent(intent)
    THEN Result("REJECTED", "paper_signal_replay", FALSE, None, None, FALSE, positions)
    ELSE [Result("SIMULATED", "paper_signal_replay", TRUE,
                Some(CalculateFillPrice(intent)), Some(intent.quantity), FALSE,
                IF MetadataSignalType(intent) = "ENTRY" \/ intent.action \in {"BUY_TO_OPEN", "SELL_TO_OPEN"}
                THEN CreateOpenPosition(intent)
                ELSE IF (MetadataSignalType(intent) = "EXIT"
                         \/ intent.action \in {"BUY_TO_CLOSE", "SELL_TO_CLOSE"})
                        /\ intent.matched_position_id # 0
                THEN ClosePosition(intent.matched_position_id, intent)
                ELSE positions)
          EXCEPT !.counted = TRUE]

\* HistoricalExecutor.execute; the router builds it without a price table
HistoricalExecute(intent) ==
    IF ~ValidateIntent(intent)
    THEN Result("REJECTED", "historical", FALSE, None, None, FALSE, positions)
    ELSE [Result("SIMULATED", "historical", TRUE,
                 IF ~IsNone(GetEffectiveLimitPrice(intent))
                 THEN GetEffectiveLimitPrice(intent) ELSE Some(10000),
                 Some(intent.quantity), FALSE, positions)
          EXCEPT !.counted = TRUE]

-----------------------------------------------------------------------------
(* Execution router *)

\* router.get_executor; brokerMode is the value of the router's module
\* global EXECUTION_BROKER_MODE
GetExecutor(brokerMode, mode) ==
    IF brokerMode = "TRADIER_ONLY" THEN "tradier"
    ELSE IF mode = "PAPER" THEN "paper"
    ELSE IF mode = "LIVE" THEN "tradier"
    ELSE "historical"

Execute(executor, intent, reply) ==
    IF executor = "tradier" THEN TradierExecute(intent, reply)
    ELSE IF executor = "paper" THEN PaperExecute(intent)
    ELSE HistoricalExecute(intent)

\* router.execute_trade under a given value of the router's broker mode
ExecuteTradeRouted(brokerMode, intent, reply) ==
    IF DRY_RUN THEN Execute(GetExecutor(brokerMode, "PAPER"), intent, reply)
    ELSE IF intent.execution_mode = "LIVE" /\ ~LIVE_TRADING
    THEN Execute(GetExecutor(brokerMode, "PAPER"), intent, reply)
    ELSE Execute(GetExecutor(brokerMode, intent.execution_mode), intent, reply)

\* router.execute_trade as shipped: the broker mode settings_store computes
ExecuteTrade(intent, reply) == ExecuteTradeRouted(EXECUTION_BROKER_MODE, intent, reply)

-----------------------------------------------------------------------------
(* Auto-mode controller: counters, safety validation, one tick *)

DefaultMaxDaily == 10
DefaultMaxHourly == 3
DefaultMaxNotional == 50000
OptionsMultiplier == 100
CentsPerDollar == 100
RecentSignalsLimit == 50

\* _load_counters default; the free-text last_action and the last_tick_time
\* stamp of the file are left out
InitialCounters ==
    [trades_today |-> 0, trades_this_hour |-> 0, notional_today |-> 0,
     last_trade_date |-> None, last_trade_hour |-> None]

\* variant: a new hour key resets nothing
ResetCountersDayOnly(c, t) ==
    LET c1 == IF c.last_trade_date # Some(t.day)
              THEN [c EXCEPT !.trades_today = 0, !.notional_today = 0,
                             !.last_trade_date = Some(t.day)]
              ELSE c
    IN [c1 EXCEPT !.last_trade_hour = Some(<<t.day, t.hour>>)]

\* _reset_counters_if_needed
ResetCountersIfNeeded(c, t) ==
    LET c1 == IF c.last_trade_date # Some(t.day)
              THEN [c EXCEPT !.trades_today = 0, !.notional_today = 0,
                             !.last_trade_date = Some(t.day)]
              ELSE c
    IN IF c1.last_trade_hour # Some(<<t.day, t.hour>>)
       THEN [c1 EXCEPT !.trades_this_hour = 0, !.last_trade_hour = Some(<<t.day, t.hour>>)]
       ELSE c1

\* the safety validation without its DRY_RUN check
SafetyIgnoringDryRun(e) ==
    /\ ~ConfigFlag(e.LIVE_TRADING, "false")
    /\ EXECUTION_BROKER_MODE = "TRADIER_ONLY"
    /\ e.AUTO_MODE_KILL_SWITCH \notin {"true", "1", "yes", "on", "enabled"}

\* _validate_auto_mode_safety: passed iff none of the four checks fails
ValidateAutoModeSafety(e) ==
    /\ ConfigFlag(e.DRY_RUN, "true")
    /\ ~ConfigFlag(e.LIVE_TRADING, "false")
    /\ EXECUTION_BROKER_MODE = "TRADIER_ONLY"
    /\ e.AUTO_MODE_KILL_SWITCH \notin {"true", "1", "yes", "on", "enabled"}

MaxDailyTrades(e) ==
    IF IsNone(e.AUTO_MAX_TRADES_PER_DAY) THEN DefaultMaxDaily ELSE Val(e.AUTO_MAX_TRADES_PER_DAY)
MaxHourlyTrades(e) ==
    IF IsNone(e.AUTO_MAX_TRADES_PER_HOUR) THEN DefaultMaxHourly ELSE Val(e.AUTO_MAX_TRADES_PER_HOUR)
\* in cents
MaxNotional(e) ==
    CentsPerDollar * (IF IsNone(e.AUTO_MAX_NOTIONAL_PER_DAY) THEN DefaultMaxNotional
                      ELSE Val(e.AUTO_MAX_NOTIONAL_PER_DAY))

\* a daily limit that lets the counter reach one past the cap
DailyLimitOff(c, e) == c.trades_today > MaxDailyTrades(e)

DailyLimitReached(c, e) == c.trades_today >= MaxDailyTrades(e)
HourlyLimitReached(c, e) == c.trades_this_hour >= MaxHourlyTrades(e)
NotionalLimitReached(c, e) == c.notional_today >= MaxNotional(e)

\* review_queue.list_recent_signals: newest first, at most `limit` entries,
\* each with its signal_type and already_executed flag
ListRecentSignals(limit) ==
    [i \in 1..Min(limit, Len(alerts)) |->
        LET a == alerts[Len(alerts) + 1 - i]
        IN [post_id |-> a.post_id, classification |-> a.classification,
            parsed_signal |-> a.parsed_signal,
            signal_type |-> IF a.classification = "SIGNAL" /\ a.parsed_signal # <<>>
                            THEN ClassifySignalType(Val(a.parsed_signal)) ELSE "UNKNOWN",
            already_executed |-> IsExecuted(a.post_id)]]

\* variant: the loop does not skip the entries already executed
SelectSignalIgnoringDedupe(signals) ==
    LET ok == {i \in 1..Len(signals) :
                 /\ signals[i].classification = "SIGNAL"
                 /\ signals[i].signal_type = "ENTRY"}
    IN IF ok = {} THEN 0 ELSE CHOOSE i \in ok : \A j \in ok : i <= j

\* a selection loop without its break: the last match of the list is kept
SelectSignalNoBreak(signals) ==
    LET ok == {i \in 1..Len(signals) :
                 /\ signals[i].classification = "SIGNAL"
                 /\ ~signals[i].already_executed
                 /\ signals[i].signal_type = "ENTRY"}
    IN IF ok = {} THEN 0 ELSE CHOOSE i \in ok : \A j \in ok : j <= i

\* the selection loop of auto_tick: index of the first unexecuted ENTRY
\* SIGNAL in the list, 0 when there is none (EXIT entries are passed over)
SelectSignal(signals) ==
    LET ok == {i \in 1..Len(signals) :
                 /\ signals[i].classification = "SIGNAL"
                 /\ ~signals[i].already_executed
                 /\ signals[i].signal_type = "ENTRY"}
    IN IF ok = {} THEN 0 ELSE CHOOSE i \in ok : \A j \in ok : i <= j

\* statuses auto_tick counts as a success, per side of the merge
SuccessStatuses(side) ==
    IF side = "upstream" THEN {"filled", "accepted", "success"}
    ELSE {"filled", "accepted", "success", "SUBMITTED", "FILLED"}

\* notional of an executed trade, in cents
TradeNotional(res, intent) ==
    IF ~IsNone(res.fill_price) /\ Val(res.fill_price) # 0
    THEN Val(res.fill_price) * Val(res.filled_quantity) * OptionsMultiplier
    ELSE IF ~IsNone(intent.limit_price) /\ Val(intent.limit_price) # 0
    THEN Val(intent.limit_price) * intent.quantity * OptionsMultiplier
    ELSE IF ~IsNone(intent.limit_max) /\ Val(intent.limit_max) # 0
    THEN Val(intent.limit_max) * intent.quantity * OptionsMultiplier
    ELSE 0

\* What an operation reports into `last`: its name, the action it returned,
\* and which of its steps it performed.  c holds the counters a tick worked
\* with (after the rollover reset).
BaseReport ==
    [op |-> "none", action |-> "", post_id |-> "", safety_failed |-> FALSE,
     reached_limits |-> FALSE, did_select |-> FALSE, preflight_passed |-> FALSE,
     exec_called |-> FALSE, exec_status |-> "", intent_mode |-> "",
     intent_notional |-> 0, placed |-> FALSE, dedupe_written |-> FALSE,
     pos_changed |-> FALSE, ran_before |-> FALSE, enabled_before |-> FALSE,
     c |-> InitialCounters, for_auto |-> FALSE, effective |-> "",
     live_allowed |-> FALSE, dual_allowed |-> FALSE, auto_live |-> FALSE,
     intent |-> None, valid |-> FALSE, has_order_id |-> FALSE,
     has_fill_price |-> FALSE, counted |-> FALSE, reply |-> "",
     arg |-> None, ret |-> None, dedupe_clear |-> FALSE]

\* auto_tick.  reply is the broker's answer should an order be posted, within
\* is the answer of is_within_auto_trading_window.  The result gives the new
\* values of the module flags, the counters file, the dedupe ledger and the
\* position ledger, and the report.  On the upstream side of the merge
\* max_notional is never assigned, so reaching the notional check raises
\* NameError out of auto_tick (action "raise") with no counters saved.
TickOutcome(brokerMode, reply, within) ==
    LET c == ResetCountersIfNeeded(counters, now)
        signals == ListRecentSignals(RecentSignalsLimit)
        sel == SelectSignal(signals)
        R == [BaseReport EXCEPT !.op = "tick", !.c = c, !.enabled_before = autoEnabled]
        Stop(action, label, rep) ==
            [enabled |-> autoEnabled, passed |-> TRUE,
             counters |-> c,
             executed |-> executed, positions |-> positions,
             report |-> [rep EXCEPT !.action = action]]
    IN
    IF ~ValidateAutoModeSafety(env)
    THEN [enabled |-> IF safetyChecksPassed THEN FALSE ELSE autoEnabled,
          passed |-> FALSE,
          counters |-> counters,
          executed |-> executed, positions |-> positions,
          report |-> [R EXCEPT !.action = "blocked", !.safety_failed = TRUE,
                               !.c = counters]]
    ELSE IF ~autoEnabled /\ env.AUTO_MODE_ENABLED # "true"
    THEN Stop("skip", "SKIP", R)
    ELSE IF (mergeSide = "upstream" \/ ~DRY_RUN) /\ ~within
    THEN Stop("pause", "PAUSE", R)
    ELSE LET R1 == [R EXCEPT !.reached_limits = TRUE] IN
    IF DailyLimitReached(c, env) THEN Stop("limit", "LIMIT", R1)
    ELSE IF HourlyLimitReached(c, env) THEN Stop("limit", "LIMIT", R1)
    ELSE IF mergeSide = "upstream"
    THEN [enabled |-> autoEnabled, passed |-> TRUE, counters |-> counters,
          executed |-> executed, positions |-> positions,
          report |-> [R1 EXCEPT !.action = "raise"]]
    ELSE IF NotionalLimitReached(c, env) THEN Stop("limit", "LIMIT", R1)
    ELSE LET R2 == [R1 EXCEPT !.did_select = TRUE] IN
    IF sel = 0 THEN Stop("idle", "IDLE", R2)
    ELSE LET entry == signals[sel]
             R3 == [R2 EXCEPT !.post_id = entry.post_id,
                              !.ran_before = entry.post_id \in execd]
             bp == BuildIntentAndPreflight(entry, "paper")
    IN
    IF IsExecuted(entry.post_id) THEN Stop("skip", "SKIP", R3)
    ELSE IF IsNone(bp.trade_intent) THEN Stop("skip", "SKIP", R3)
    ELSE IF ~bp.preflight_ok THEN Stop("blocked", "BLOCKED", R3)
    ELSE LET intent == IntentFromDict(Val(bp.trade_intent), "PAPER")
             res == ExecuteTradeRouted(brokerMode, intent, reply)
             R4 == [R3 EXCEPT !.preflight_passed = bp.preflight_ok,
                              !.dedupe_clear = ~IsExecuted(entry.post_id),
                              !.exec_called = TRUE,
                              !.exec_status = res.status,
                              !.intent_mode = intent.execution_mode,
                              !.intent_notional = TradeNotional(res, intent),
                              !.placed = res.placed,
                              !.pos_changed = res.positions # positions]
    IN
    IF res.status \in SuccessStatuses(mergeSide)
    THEN [enabled |-> autoEnabled, passed |-> TRUE,
          counters |-> [c EXCEPT !.trades_today = @ + 1, !.trades_this_hour = @ + 1,
                                 !.notional_today = @ + TradeNotional(res, intent)],
          executed |-> MarkExecuted(entry.post_id, "paper", res.status),
          positions |-> res.positions,
          report |-> [R4 EXCEPT !.action = "executed",
                                !.dedupe_written = entry.post_id # ""]]
    ELSE [Stop("failed", "FAILED", R4) EXCEPT !.positions = res.positions]

ApproveSignalsLimit == 100

\* dashboard.approve_signal (POST /review/approve)
ApproveOutcome(postId, mode, reply) ==
    LET signals == ListRecentSignals(ApproveSignalsLimit)
        found == {i \in 1..Len(signals) : signals[i].post_id = postId}
        R == [BaseReport EXCEPT !.op = "approve", !.post_id = postId,
                                !.ran_before = postId \in execd]
        Stop(action, rep) ==
            [executed |-> executed, positions |-> positions,
             report |-> [rep EXCEPT !.action = action]]
    IN
    IF postId = "" THEN Stop("bad_request", R)
    ELSE IF IsExecuted(postId) THEN Stop("duplicate", R)
    ELSE IF found = {} THEN Stop("not_found", R)
    ELSE LET entry == signals[CHOOSE i \in found : \A j \in found : i <= j]
             bp == BuildIntentAndPreflight(entry, mode)
    IN
    IF IsNone(bp.trade_intent) THEN Stop("no_intent", R)
    ELSE IF ~bp.preflight_ok THEN Stop("preflight_failed", R)
    ELSE LET intent == IntentFromDict(Val(bp.trade_intent),
                                      Val(bp.trade_intent).execution_mode)
             res == ExecuteTrade(intent, reply)
    IN [executed |-> MarkExecuted(postId, mode, res.status),
        positions |-> res.positions,
        report |-> [R EXCEPT !.action = "executed",
                             !.preflight_passed = bp.preflight_ok,
                             !.dedupe_clear = ~IsExecuted(postId),
                             !.exec_called = TRUE, !.exec_status = res.status,
                             !.intent_mode = intent.execution_mode,
                             !.placed = res.placed, !.dedupe_written = TRUE,
                             !.pos_changed = res.positions # positions]]

\* execution_plan.get_executable_signal: index in the alerts file of the
\* newest ENTRY signal with a ticker, else of the newest EXIT signal that has
\* complete legs or resolves to an open position, else 0
GetExecutableSignal ==
    LET entries == {i \in 1..Len(alerts) :
                      alerts[i].classification = "SIGNAL" /\ alerts[i].parsed_signal # <<>>}
        P(i) == Val(alerts[i].parsed_signal)
        entry == {i \in entries : ClassifySignalType(P(i)) = "ENTRY" /\ P(i).ticker # ""}
        exit == {i \in entries :
                   /\ ClassifySignalType(P(i)) = "EXIT"
                   /\ (HasCompleteLegDetails(P(i)) \/ FindOpenPositionForExit(P(i)) # 0)}
        Last(S) == CHOOSE i \in S : \A j \in S : j <= i
    IN IF entry # {} THEN Last(entry) ELSE IF exit # {} THEN Last(exit) ELSE 0

\* the TradeIntent execute_paper_last_signal builds for the selected entry
\* of the alerts file, None when an EXIT resolves to no open position
LastSignalIntent(sel) ==
    LET p == Val(alerts[sel].parsed_signal)
        pos == FindOpenPositionForExit(p)
    IN IF ClassifySignalType(p) = "EXIT" /\ ~HasCompleteLegDetails(p)
       THEN (IF pos = 0 THEN None
             ELSE Some(BuildCloseIntentFromPosition(positions[pos], p, "PAPER")))
       ELSE Some(BuildTradeIntent(p, "PAPER"))

-----------------------------------------------------------------------------
(* Operations *)

\* auto_mode._start_auto_thread: new values of the thread state
StartAutoThread(enabled) ==
    IF autoThread
    THEN [enabled |-> enabled, passed |-> safetyChecksPassed, thread |-> TRUE,
          stop |-> stopEvent, workers |-> workers]
    ELSE IF ~ValidateAutoModeSafety(env)
    THEN [enabled |-> FALSE, passed |-> FALSE, thread |-> FALSE,
          stop |-> stopEvent, workers |-> workers]
    ELSE [enabled |-> enabled, passed |-> TRUE, thread |-> TRUE,
          stop |-> FALSE, workers |-> workers + 1]

\* auto_mode.initialize_auto_mode
InitializeAutoMode ==
    /\ workers < MaxWorkers
    /\ LET s == IF env.AUTO_MODE_ENABLED = "true" THEN StartAutoThread(TRUE)
                ELSE [enabled |-> FALSE, passed |-> safetyChecksPassed,
                      thread |-> autoThread, stop |-> stopEvent, workers |-> workers]
       IN /\ autoEnabled' = s.enabled
          /\ safetyChecksPassed' = s.passed
          /\ autoThread' = s.thread
          /\ stopEvent' = s.stop
          /\ workers' = s.workers
    /\ last' = BaseReport
    /\ UNCHANGED <<env, requested, mergeSide, now, counters, alerts, executed,
                   positions, brokerOrders, execd, caches,
                   inflight, loops, daily, risk, state, processCalls>>

\* auto_mode.set_auto_enabled(True)
EnableAuto ==
    /\ workers < MaxWorkers
    /\ LET s == StartAutoThread(TRUE)
       IN /\ autoEnabled' = s.enabled
          /\ safetyChecksPassed' = s.passed
          /\ autoThread' = s.thread
          /\ stopEvent' = s.stop
          /\ workers' = s.workers
    /\ last' = BaseReport
    /\ UNCHANGED <<env, requested, mergeSide, now, counters, alerts, executed,
                   positions, brokerOrders, execd, caches,
                   inflight, loops, daily, risk, state, processCalls>>

\* auto_mode.set_auto_enabled(False): _stop_auto_thread sets the stop event,
\* joins the referenced thread for at most 5 seconds and drops the reference
\* whether or not the thread has ended
DisableAuto ==
    /\ autoEnabled' = FALSE
    /\ stopEvent' = TRUE
    /\ autoThread' = FALSE
    /\ \E joined \in BOOLEAN :
          workers' = IF autoThread /\ joined /\ workers > 0 THEN workers - 1 ELSE workers
    /\ last' = BaseReport
    /\ UNCHANGED <<env, requested, mergeSide, safetyChecksPassed, now, counters,
                   alerts, executed, positions, brokerOrders, execd, caches,
                   inflight, loops, daily, risk, state, processCalls>>

\* _auto_loop leaves its while loop once it sees the stop event
WorkerExit ==
    /\ workers > 0
    /\ stopEvent
    /\ workers' = workers - 1
    /\ last' = BaseReport
    /\ UNCHANGED <<env, requested, mergeSide, autoEnabled, safetyChecksPassed,
                   autoThread, stopEvent, now, counters, alerts, executed,
                   positions, brokerOrders, execd, caches,
                   inflight, loops, daily, risk, state, processCalls>>

\* one iteration of _auto_loop that calls auto_tick, with execute_trade
\* routing under the given broker mode
Tick(brokerMode) ==
    /\ workers > 0
    /\ ~stopEvent
    /\ autoEnabled
    /\ \E reply \in BrokerReplies, within \in BOOLEAN :
          \E o \in {TickOutcome(brokerMode, reply, within)} :
             /\ autoEnabled' = o.enabled
             /\ safetyChecksPassed' = o.passed
             /\ counters' = o.counters
             /\ executed' = o.executed
             /\ positions' = o.positions
             /\ brokerOrders' = IF o.report.placed THEN brokerOrders \cup {"auto"}
                                ELSE brokerOrders
             /\ execd' = IF o.report.exec_called THEN execd \cup {o.report.post_id}
                         ELSE execd
             /\ last' = o.report
    /\ UNCHANGED <<env, requested, mergeSide, autoThread, stopEvent, workers, now, alerts, caches,
                   inflight, loops, daily, risk, state, processCalls>>

\* the tick of the shipped program
AutoTick == Tick(EXECUTION_BROKER_MODE)

\* the tick with the router's broker-mode global at "MULTI", the routing by
\* intent mode that get_executor holds after its TRADIER_ONLY branch; the
\* paper ledger is kept to MaxPositions entries
AutoTickMulti ==
    /\ Len(positions) < MaxPositions
    /\ Tick("MULTI")

\* POST /review/approve
ApproveSignal ==
    /\ \E postId \in PostIds, mode \in {"paper", "live"}, reply \in BrokerReplies :
          \E o \in {ApproveOutcome(postId, mode, reply)} :
             /\ executed' = o.executed
             /\ positions' = o.positions
             /\ brokerOrders' = IF o.report.placed THEN brokerOrders \cup {"approve"}
                                ELSE brokerOrders
             /\ execd' = IF o.report.exec_called THEN execd \cup {postId} ELSE execd
             /\ last' = o.report
    /\ UNCHANGED <<env, requested, mergeSide, autoEnabled, safetyChecksPassed,
                   autoThread, stopEvent, workers, now, counters, alerts, caches,
                   inflight, loops, daily, risk, state, processCalls>>

\* dashboard.execute_paper_last_signal (POST /execute/paper/last_signal):
\* selects, builds the intent and calls execute_trade; it reads neither the
\* dedupe ledger nor the preflight gate and writes no DedupeRecord
ExecutePaperLastSignal ==
    /\ \E reply \in BrokerReplies :
          \E sel \in {GetExecutableSignal} :
             \E ti \in {IF sel = 0 THEN None ELSE LastSignalIntent(sel)} :
                IF IsNone(ti)
                THEN /\ last' = [BaseReport EXCEPT !.op = "last_signal", !.action = "skip",
                                                   !.did_select = TRUE]
                     /\ UNCHANGED <<positions, brokerOrders, execd, risk, state, processCalls>>
                ELSE \E res \in {ExecuteTrade(Val(ti), reply)} :
                        /\ positions' = res.positions
                        /\ brokerOrders' = IF res.placed THEN brokerOrders \cup {"last_signal"}
                                           ELSE brokerOrders
                        /\ execd' = execd \cup {alerts[sel].post_id}
                        /\ last' = [BaseReport EXCEPT
                                       !.op = "last_signal", !.action = "executed",
                                       !.did_select = TRUE,
                                       !.post_id = alerts[sel].post_id,
                                       !.ran_before = alerts[sel].post_id \in execd,
                                       !.exec_called = TRUE,
                                       !.exec_status = res.status,
                                       !.intent_mode = Val(ti).execution_mode,
                                       !.placed = res.placed,
                                       !.pos_changed = res.positions # positions]
    /\ UNCHANGED <<env, requested, mergeSide, autoEnabled, safetyChecksPassed,
                   autoThread, stopEvent, workers, now, counters, alerts, executed,
                   caches,
                   inflight, loops, daily, risk, state, processCalls>>

\* the ingest pipeline appends a parsed alert to the alerts file
IngestAlert ==
    /\ Len(alerts) < MaxAlerts
    /\ \E a \in AlertSamples :
          /\ \A i \in 1..Len(alerts) : alerts[i] # a
          /\ alerts' = Append(alerts, a)
    /\ last' = BaseReport
    /\ UNCHANGED <<env, requested, mergeSide, autoEnabled, safetyChecksPassed,
                   autoThread, stopEvent, workers, now, counters, executed,
                   positions, brokerOrders, execd, caches,
                   inflight, loops, daily, risk, state, processCalls>>

\* the operator sets or clears AUTO_MODE_KILL_SWITCH in the environment
SetKillSwitch ==
    /\ \E v \in {"unset", "true"} :
          /\ v # env.AUTO_MODE_KILL_SWITCH
          /\ env' = [env EXCEPT !.AUTO_MODE_KILL_SWITCH = v]
    /\ last' = BaseReport
    /\ UNCHANGED <<requested, mergeSide, autoEnabled, safetyChecksPassed,
                   autoThread, stopEvent, workers, now, counters, alerts, executed,
                   positions, brokerOrders, execd, caches,
                   inflight, loops, daily, risk, state, processCalls>>

\* time passes into the next hour bucket, or into the next day
AdvanceClock ==
    /\ \/ /\ now.hour < MaxHour
          /\ now' = [now EXCEPT !.hour = @ + 1]
       \/ /\ now.day < MaxDay
          /\ now' = [day |-> now.day + 1, hour |-> 0]
    /\ last' = BaseReport
    /\ UNCHANGED <<env, requested, mergeSide, autoEnabled, safetyChecksPassed,
                   autoThread, stopEvent, workers, counters, alerts, executed,
                   positions, brokerOrders, execd, caches,
                   inflight, loops, daily, risk, state, processCalls>>

-----------------------------------------------------------------------------
(* Initial states and specifications *)

EnvOf(dry, live, dual, autoLive, autoEnabledVar, kill, caps) ==
    [DRY_RUN |-> dry, LIVE_TRADING |-> live, ALLOW_DUAL_MODE |-> dual,
     AUTO_LIVE_ENABLED |-> autoLive, AUTO_MODE_ENABLED |-> autoEnabledVar,
     AUTO_MODE_KILL_SWITCH |-> kill, AUTO_MAX_TRADES_PER_DAY |-> caps[1],
     AUTO_MAX_TRADES_PER_HOUR |-> caps[2], AUTO_MAX_NOTIONAL_PER_DAY |-> caps[3]]

NoCaps == <<None, None, None>>

\* cap settings of the environment: all unset (the defaults apply), or one
\* cap set to zero, or the notional ceiling set to 100 dollars
CapSettings ==
    { NoCaps, <<Some(0), None, None>>, <<None, Some(0), None>>,
      <<None, None, Some(0)>>, <<None, None, Some(100)>> }

\* The callers of the execution path that may be between their checks and
\* their order: the worker's tick and two request handlers of /review/approve
Callers == {"auto", "approve1", "approve2"}

\* no run has begun
NoRuns ==
    [w \in Callers |-> [pc |-> "idle", post_id |-> "", mode |-> "", intent |-> None,
                        c |-> InitialCounters]]

\* the _auto_loop threads a process may hold, none started: where each is
\* in its code, the iterations left of its sleep loop, the thread that
\* _auto_thread refers to (0 for None), and whether _stop_auto_thread is
\* waiting in its join
Threads == 1..MaxWorkers
NoLoops ==
    [pc |-> [t \in Threads |-> "none"], left |-> [t \in Threads |-> 0],
     ref |-> 0, joining |-> FALSE]

\* _daily_metrics at import.  "days" are the days whose ticks the metrics
\* hold (since import or the last reset), "ran" the days on which a tick
\* ran, "emitted" the summaries logged: the date each is printed for and
\* the days whose metrics it reports
InitialDaily ==
    [last_summary_date |-> None, summary_emitted |-> FALSE, last_market_state |-> "",
     days |-> {}, ran |-> {}, emitted |-> <<>>]

\* config.py: MAX_CONTRACTS_PER_TRADE, MAX_OPEN_POSITIONS and MAX_DAILY_RISK_PCT
\* (0.10, here in percent) at their defaults
MaxContractsPerTrade == 10
MaxOpenPositions == 20
MaxDailyRiskPct == 10

\* RiskManager.__init__: the three limits as given, nothing used, nothing
\* open.  daily_risk_used is in cents, max_daily_risk_pct in percent.
RiskManagerInit(maxContracts, maxOpen, maxDailyPct) ==
    [max_contracts_per_trade |-> maxContracts, max_open_positions |-> maxOpen,
     max_daily_risk_pct |-> maxDailyPct, daily_risk_used |-> 0,
     open_positions_count |-> 0]

\* normalized-text hashes of the alerts the feed can show
AlertHashes == {"h1", "h2", "h3", "h4"}

\* TradeState(): the state main.load_state answers when there is no state file
NewTradeState ==
    [processed_alert_hashes |-> <<>>, last_reset_date |-> None,
     last_summary_date |-> None]

NoCalls == [h \in AlertHashes |-> 0]

\* The state of the modules after import, before any call and before any
\* RiskManager is made
InitRest ==
    /\ autoEnabled = TRUE
    /\ safetyChecksPassed = FALSE
    /\ autoThread = FALSE
    /\ stopEvent = FALSE
    /\ workers = 0
    /\ now = [day |-> 1, hour |-> 0]
    /\ counters = InitialCounters
    /\ executed = <<>>
    /\ positions = <<>>
    /\ brokerOrders = {}
    /\ execd = {}
    /\ caches = NoCaches
    /\ inflight = NoRuns
    /\ loops = NoLoops
    /\ daily = InitialDaily
    /\ state = NewTradeState
    /\ processCalls = NoCalls
    /\ last = BaseReport

\* The same with a RiskManager made with the default limits
InitModules ==
    /\ InitRest
    /\ risk = RiskManagerInit(MaxContractsPerTrade, MaxOpenPositions, MaxDailyRiskPct)

\* Controller under its rate limits.  Environments in which the controller
\* can pass its safety checks (DRY_RUN and LIVE_TRADING at their defaults)
\* with every cap setting, and environments with DRY_RUN off.
Init ==
    /\ \/ /\ env \in {EnvOf("unset", "unset", "unset", "unset", "true", "unset", caps) :
                        caps \in CapSettings}
          /\ requested = "paper"
       \/ /\ env \in {EnvOf(dry, live, "unset", "unset", "true", "unset", NoCaps) :
                        dry \in {"unset", "false"}, live \in {"unset", "true"}}
          /\ requested \in {"live", "dual"}
    /\ mergeSide \in {"upstream", "stashed"}
    /\ alerts = <<>>
    /\ InitModules

Next ==
    \/ EnableAuto
    \/ AutoTick
    \/ IngestAlert
    \/ AdvanceClock

Spec == Init /\ [][Next]_vars

\* Manual approval next to the controller
InitApprove ==
    /\ env \in {EnvOf(dry, live, "unset", "unset", "true", "unset", NoCaps) :
                  dry \in {"unset", "false"}, live \in {"unset", "true"}}
    /\ requested = "paper"
    /\ mergeSide \in {"upstream", "stashed"}
    /\ alerts = <<>>
    /\ InitModules

NextApprove ==
    \/ EnableAuto
    \/ AutoTick
    \/ ApproveSignal
    \/ IngestAlert

SpecApprove == InitApprove /\ [][NextApprove]_vars

\* Enabling, disabling and the kill switch; the alerts file holds one valid
\* entry signal
InitControl ==
    /\ env \in {EnvOf(dry, "unset", "unset", "unset", ame, "unset", NoCaps) :
                  dry \in {"unset", "false"}, ame \in {"unset", "true"}}
    /\ requested = "paper"
    /\ mergeSide \in {"upstream", "stashed"}
    /\ alerts \in {<<a>> : a \in {x \in AlertSamples : x.post_id = "p2"}}
    /\ InitModules

NextControl ==
    \/ InitializeAutoMode
    \/ EnableAuto
    \/ DisableAuto
    \/ WorkerExit
    \/ AutoTick
    \/ SetKillSwitch

SpecControl == InitControl /\ [][NextControl]_vars

\* Mode manager alone: every combination of the four flags and every
\* requested-mode setting, valid or not
InitMode ==
    /\ env \in {EnvOf(dry, live, dual, autoLive, "unset", "unset", NoCaps) :
                  dry \in EnvValues, live \in EnvValues,
                  dual \in EnvValues, autoLive \in EnvValues}
    /\ requested \in VALID_MODES \cup {"bogus"}
    /\ mergeSide = "stashed"
    /\ alerts = <<>>
    /\ InitModules

\* a call of mode_manager.get_effective_execution_mode(for_auto)
GetMode ==
    /\ \E forAuto \in BOOLEAN :
          LET m == GetEffectiveExecutionMode(env, requested, forAuto)
          IN last' = [BaseReport EXCEPT !.op = "mode", !.for_auto = forAuto,
                                        !.effective = m.effective,
                                        !.live_allowed = m.live_allowed,
                                        !.dual_allowed = m.dual_allowed,
                                        !.auto_live = m.auto_live_enabled]
    /\ UNCHANGED <<env, requested, mergeSide, autoEnabled, safetyChecksPassed,
                   autoThread, stopEvent, workers, now, counters, alerts, executed,
                   positions, brokerOrders, execd, caches,
                   inflight, loops, daily, risk, state, processCalls>>

\* Controller over the router's MULTI routing, where PAPER intents reach the
\* paper executor
InitMulti ==
    /\ env = EnvOf("unset", "unset", "unset", "unset", "true", "unset", NoCaps)
    /\ requested = "paper"
    /\ mergeSide \in {"upstream", "stashed"}
    /\ alerts = <<>>
    /\ InitModules

NextMulti ==
    \/ EnableAuto
    \/ AutoTickMulti
    \/ IngestAlert
    \/ AdvanceClock

SpecMulti == InitMulti /\ [][NextMulti]_vars

NextMode == GetMode

SpecMode == InitMode /\ [][NextMode]_vars

\* Router alone: every value of the two flags it reads, intents of every
\* execution mode
InitRouter ==
    /\ env \in {EnvOf(dry, live, "unset", "unset", "unset", "unset", NoCaps) :
                  dry \in EnvValues, live \in EnvValues}
    /\ requested = "paper"
    /\ mergeSide = "stashed"
    /\ alerts = <<>>
    /\ InitModules

\* a call of execution.execute_trade with an intent built from a signal
RouteTrade ==
    /\ \E a \in AlertSamples, mode \in {"PAPER", "LIVE", "HISTORICAL"},
          reply \in BrokerReplies :
          LET intent == BuildTradeIntent(Val(a.parsed_signal), mode)
              res == ExecuteTrade(intent, reply)
          IN /\ positions' = res.positions
             /\ brokerOrders' = IF res.placed THEN brokerOrders \cup {"direct"}
                                ELSE brokerOrders
             /\ last' = [BaseReport EXCEPT !.op = "execute", !.post_id = a.post_id,
                                           !.exec_called = TRUE,
                                           !.exec_status = res.status,
                                           !.intent_mode = mode,
                                           !.placed = res.placed,
                                           !.pos_changed = res.positions # positions,
                                           !.intent = Some(intent),
                                           !.valid = ValidateIntent(intent),
                                           !.has_order_id = res.has_order_id,
                                           !.has_fill_price = ~IsNone(res.fill_price),
                                           !.reply = reply]
    /\ UNCHANGED <<env, requested, mergeSide, autoEnabled, safetyChecksPassed,
                   autoThread, stopEvent, workers, now, counters, alerts, executed,
                   execd, caches,
                   inflight, loops, daily, risk, state, processCalls>>

NextRouter == RouteTrade

SpecRouter == InitRouter /\ [][NextRouter]_vars

-----------------------------------------------------------------------------
(* The executors and the position ledger in one process *)

Leg500 == Leg("BUY", 500, "CALL", Some(FarExpiry))
Leg510 == Leg("SELL", 510, "CALL", Some(FarExpiry))

\* entry signals: a stock, a two-leg spread under a lower-case ticker, and a
\* stock of another ticker
EntrySignals ==
    { Parsed("SPY", "LONG_STOCK", "", <<>>, 0, 0, Some(2)),
      Parsed("spy", "CALL_DEBIT_SPREAD", "", <<Leg500, Leg510>>, 0, 150, None),
      Parsed("QQQ", "LONG_STOCK", "", <<>>, 0, 0, Some(2)) }

\* exit signals: without legs (lower-case ticker), with the legs of the
\* spread in the other order, and for the other ticker
ExitSignals ==
    { Parsed("spy", "EXIT", "", <<>>, 0, 0, None),
      Parsed("SPY", "EXIT", "", <<Leg510, Leg500>>, 0, 0, None),
      Parsed("QQQ", "EXIT", "", <<>>, 0, 0, None) }

EntryIntents == {BuildTradeIntent(p, "PAPER") : p \in EntrySignals}

\* closing intents of the positions in the ledger, built when the position
\* was matched; the position may have been closed since
CloseIntents ==
    UNION { {BuildCloseIntentFromPosition(positions[i], x, "PAPER") :
                x \in {y \in ExitSignals :
                          Upper(y.ticker) = Upper(positions[i].underlying)}} :
            i \in 1..Len(positions) }

\* intents that fail validate_intent: no underlying, LIMIT without a
\* price, STOP without a stop price, STOP_LIMIT with a stop price only
InvalidOf(intent) ==
    { [intent EXCEPT !.underlying = ""],
      [intent EXCEPT !.order_type = "LIMIT", !.limit_price = None, !.limit_max = None],
      [intent EXCEPT !.order_type = "STOP"],
      [intent EXCEPT !.order_type = "STOP_LIMIT", !.stop_price = Some(100),
                     !.limit_price = None, !.limit_max = None] }

StockEntry == BuildTradeIntent(Parsed("SPY", "LONG_STOCK", "", <<>>, 0, 0, Some(2)), "PAPER")
OptionEntry == BuildTradeIntent(Parsed("SPY", "CALL", "", <<Leg500>>, 0, 200, None), "PAPER")
SpreadEntry ==
    BuildTradeIntent(Parsed("spy", "CALL_DEBIT_SPREAD", "", <<Leg500, Leg510>>, 0, 150, None),
                     "PAPER")

\* the intents given to the paper executor next to the ledger operations
PaperIntents == EntryIntents \cup CloseIntents

\* the intents given to each executor: a valid entry, the valid closing
\* intents, and intents that fail the validation, among them closing ones
ValidationIntents ==
    {StockEntry} \cup CloseIntents \cup InvalidOf(StockEntry)
        \cup UNION {InvalidOf(ci) : ci \in CloseIntents}

\* the live-broker executor is also given a single-leg option and a spread
TradierIntents == ValidationIntents \cup {OptionEntry, SpreadEntry} \cup InvalidOf(OptionEntry)

OpensPosition(intent) ==
    ValidateIntent(intent)
    /\ (MetadataSignalType(intent) = "ENTRY" \/ intent.action \in {"BUY_TO_OPEN", "SELL_TO_OPEN"})

ExecReport(op, intent, res, reply) ==
    [BaseReport EXCEPT !.op = op, !.exec_called = TRUE,
                       !.exec_status = res.status,
                       !.intent_mode = intent.execution_mode,
                       !.placed = res.placed,
                       !.pos_changed = res.positions # positions,
                       !.intent = Some(intent),
                       !.valid = ValidateIntent(intent),
                       !.has_order_id = res.has_order_id,
                       !.has_fill_price = ~IsNone(res.fill_price),
                       !.counted = res.counted,
                       !.reply = reply]

\* PaperExecutor.execute on an intent of the pool
PaperExecOn(pool) ==
    /\ \E intent \in pool :
          /\ OpensPosition(intent) => Len(positions) < MaxPositions
          /\ positions' = PaperExecute(intent).positions
          /\ last' = ExecReport("paper_execute", intent, PaperExecute(intent), "")
    /\ UNCHANGED <<env, requested, mergeSide, autoEnabled, safetyChecksPassed,
                   autoThread, stopEvent, workers, now, counters, alerts, executed,
                   brokerOrders, execd, caches,
                   inflight, loops, daily, risk, state, processCalls>>

PaperExec == PaperExecOn(PaperIntents)

PaperExecAny == PaperExecOn(ValidationIntents)

\* HistoricalExecutor.execute on an intent
HistoricalExec ==
    /\ \E intent \in ValidationIntents :
          /\ positions' = HistoricalExecute(intent).positions
          /\ last' = ExecReport("historical_execute", intent, HistoricalExecute(intent), "")
    /\ UNCHANGED <<env, requested, mergeSide, autoEnabled, safetyChecksPassed,
                   autoThread, stopEvent, workers, now, counters, alerts, executed,
                   brokerOrders, execd, caches,
                   inflight, loops, daily, risk, state, processCalls>>

\* TradierExecutor.execute on an intent
TradierExec ==
    /\ \E intent \in TradierIntents, reply \in BrokerReplies :
          LET res == TradierExecute(intent, reply)
          IN /\ positions' = res.positions
             /\ brokerOrders' = IF res.placed THEN brokerOrders \cup {"direct"}
                                ELSE brokerOrders
             /\ last' = ExecReport("tradier_execute", intent, res, reply)
    /\ UNCHANGED <<env, requested, mergeSide, autoEnabled, safetyChecksPassed,
                   autoThread, stopEvent, workers, now, counters, alerts, executed,
                   execd, caches,
                   inflight, loops, daily, risk, state, processCalls>>

\* ids a caller may pass: none, those of the ledger, and one of no position
PositionIds == 0..(MaxPositions + 1)

\* close_intent dicts a caller may pass
CloseIntentSamples ==
    { [action |-> "SELL_TO_CLOSE", order_type |-> "LIMIT", limit_price |-> Some(120),
       legs |-> <<>>] }

\* a call of paper_positions.mark_position_closed
MarkClosed ==
    /\ \E id \in PositionIds, ci \in CloseIntentSamples :
          LET res == MarkPositionClosed(positions, id, ci)
          IN /\ positions' = res.items
             /\ last' = [BaseReport EXCEPT !.op = "mark_closed", !.arg = Some(id),
                                           !.ret = Some(res.ok),
                                           !.pos_changed = res.items # positions]
    /\ UNCHANGED <<env, requested, mergeSide, autoEnabled, safetyChecksPassed,
                   autoThread, stopEvent, workers, now, counters, alerts, executed,
                   brokerOrders, execd, caches,
                   inflight, loops, daily, risk, state, processCalls>>

\* a call of paper_positions.find_open_position_for_exit
FindExit ==
    /\ \E x \in ExitSignals :
          last' = [BaseReport EXCEPT !.op = "find_exit", !.arg = Some(x),
                                    !.ret = Some(FindOpenPositionForExit(x))]
    /\ UNCHANGED <<env, requested, mergeSide, autoEnabled, safetyChecksPassed,
                   autoThread, stopEvent, workers, now, counters, alerts, executed,
                   positions, brokerOrders, execd, caches,
                   inflight, loops, daily, risk, state, processCalls>>

\* The paper executor and the ledger operations, DRY_RUN at its default
InitPaper ==
    /\ env = EnvOf("unset", "unset", "unset", "unset", "unset", "unset", NoCaps)
    /\ requested = "paper"
    /\ mergeSide = "stashed"
    /\ alerts = <<>>
    /\ InitModules

NextPaper ==
    \/ PaperExec
    \/ MarkClosed
    \/ FindExit

SpecPaper == InitPaper /\ [][NextPaper]_vars

\* The three executors, with DRY_RUN on and off
InitExecutors ==
    /\ env \in {EnvOf(dry, "unset", "unset", "unset", "unset", "unset", NoCaps) :
                  dry \in {"unset", "false"}}
    /\ requested = "paper"
    /\ mergeSide = "stashed"
    /\ alerts = <<>>
    /\ InitModules

NextExecutors ==
    \/ PaperExecAny
    \/ HistoricalExec
    \/ TradierExec

SpecExecutors == InitExecutors /\ [][NextExecutors]_vars

-----------------------------------------------------------------------------
(* The position ledger file under two processes (the controller worker and *)
(* a request handler of the web service), each with the module globals     *)
(* _positions_cache and _cache_loaded of its own.  Each call of the module *)
(* is taken as one step.                                                    *)

\* _get_positions: the cache of the process, loaded from the file at the
\* first use
GetPositions(pr) == IF caches[pr].loaded THEN caches[pr].items ELSE positions

\* append_open_position in process pr: the position is appended to the
\* cache and one line is appended to the file
ProcAppend(pr) ==
    /\ FreshId <= MaxPositions
    /\ LET new == NewPosition(FreshId, StockEntry)
       IN /\ caches' = [caches EXCEPT ![pr] = [loaded |-> TRUE,
                                               items |-> Append(GetPositions(pr), new)]]
          /\ positions' = Append(positions, new)
    /\ last' = [BaseReport EXCEPT !.op = "append", !.post_id = pr]
    /\ UNCHANGED <<env, requested, mergeSide, autoEnabled, safetyChecksPassed,
                   autoThread, stopEvent, workers, now, counters, alerts, executed,
                   brokerOrders, execd,
                   inflight, loops, daily, risk, state, processCalls>>

\* mark_position_closed in process pr: on a hit _save_all_positions rewrites
\* the whole file from the cache of the process
ProcClose(pr) ==
    /\ \E id \in 1..MaxPositions, ci \in CloseIntentSamples :
          LET res == MarkPositionClosed(GetPositions(pr), id, ci)
          IN /\ caches' = [caches EXCEPT ![pr] = [loaded |-> TRUE, items |-> res.items]]
             /\ positions' = IF res.ok THEN res.items ELSE positions
             /\ last' = [BaseReport EXCEPT !.op = "close", !.post_id = pr,
                                           !.arg = Some(id), !.ret = Some(res.ok)]
    /\ UNCHANGED <<env, requested, mergeSide, autoEnabled, safetyChecksPassed,
                   autoThread, stopEvent, workers, now, counters, alerts, executed,
                   brokerOrders, execd,
                   inflight, loops, daily, risk, state, processCalls>>

NextLedger ==
    \/ \E pr \in Procs : ProcAppend(pr)
    \/ \E pr \in Procs : ProcClose(pr)

SpecLedger == InitPaper /\ [][NextLedger]_vars

-----------------------------------------------------------------------------
(* The preflight gate on its own *)

\* signals: an option, a spread whose size exceeds the risk cap, an SPX
\* option that expires today, a crypto stock and a plain stock
PreflightSignals ==
    { Parsed("SPY", "CALL", "", <<Leg500>>, 0, 200, None),
      Parsed("SPY", "CALL_DEBIT_SPREAD", "", <<Leg500, Leg510>>, 0, 150, Some(9)),
      Parsed("SPX", "CALL", "", <<Leg("BUY", 500, "CALL", Some(now.day))>>, 0, 200, None),
      Parsed("BTC", "LONG_STOCK", "", <<>>, 0, 0, Some(2)),
      Parsed("SPY", "LONG_STOCK", "", <<>>, 0, 0, Some(2)),
      Parsed("SPY", "LONG_OPTION", "", <<>>, 0, 200, None),
      Parsed("SPY", "EXIT", "exit", <<>>, 0, 200, None) }

LegFields == {"expiration", "strike", "option_type", "side"}

\* the leg dict without one of its fields
LegWithout(leg, field) ==
    IF field = "expiration" THEN [leg EXCEPT !.expiration = None]
    ELSE IF field = "strike" THEN [leg EXCEPT !.strike = 0 - 1]
    ELSE IF field = "option_type" THEN [leg EXCEPT !.option_type = ""]
    ELSE [leg EXCEPT !.side = ""]

\* the trade_intent dicts given to preflight_check for a signal: the one
\* the builder makes and those with one field of one leg missing
IntentDicts(p) ==
    LET ti == BuildTradeIntent(p, "PAPER")
    IN {ti} \cup {[ti EXCEPT !.legs[k] = LegWithout(ti.legs[k], f)] :
                    k \in 1..Len(ti.legs), f \in LegFields}

\* a call of preflight.preflight_check
RunPreflight ==
    /\ \E p \in PreflightSignals, mode \in {"paper", "live", "dual"},
          postId \in {"", "p1"} :
          \E ti \in IntentDicts(p) :
             last' = [BaseReport EXCEPT !.op = "preflight", !.post_id = postId,
                                       !.intent = Some(ti), !.intent_mode = mode,
                                       !.arg = Some(p),
                                       !.ret = Some(PreflightCheck(p, ti, mode, postId))]
    /\ UNCHANGED <<env, requested, mergeSide, autoEnabled, safetyChecksPassed,
                   autoThread, stopEvent, workers, now, counters, alerts, executed,
                   positions, brokerOrders, execd, caches,
                   inflight, loops, daily, risk, state, processCalls>>

\* dedupe_store.mark_executed for the signal p1
RecordExecuted ==
    /\ ~IsExecuted("p1")
    /\ executed' = MarkExecuted("p1", "paper", "SIMULATED")
    /\ last' = BaseReport
    /\ UNCHANGED <<env, requested, mergeSide, autoEnabled, safetyChecksPassed,
                   autoThread, stopEvent, workers, now, counters, alerts,
                   positions, brokerOrders, execd, caches,
                   inflight, loops, daily, risk, state, processCalls>>

\* environments in which live and dual trading are blocked, and one in
\* which both are allowed
InitPreflight ==
    /\ env \in {EnvOf("unset", "unset", "unset", "unset", "unset", "unset", NoCaps),
                EnvOf("false", "true", "true", "unset", "unset", "unset", NoCaps)}
    /\ requested \in {"paper", "dual"}
    /\ mergeSide = "stashed"
    /\ alerts = <<>>
    /\ InitModules

NextPreflight ==
    \/ RunPreflight
    \/ RecordExecuted

SpecPreflight == InitPreflight /\ [][NextPreflight]_vars

-----------------------------------------------------------------------------
(* The price accessor of TradeIntent on its own *)

\* values of an Optional[float] price field, in cents
PriceSamples == {None, Some(100), Some(150), Some(200), Some(250)}

\* TradeIntent.get_effective_limit_price on a limit order whose three price
\* fields are drawn independently
EffectivePrice ==
    /\ \E lp \in PriceSamples, lmin \in PriceSamples, lmax \in PriceSamples :
          LET intent == [StockEntry EXCEPT !.order_type = "LIMIT",
                                           !.limit_price = lp,
                                           !.limit_min = lmin,
                                           !.limit_max = lmax]
          IN last' = [BaseReport EXCEPT !.op = "effective_price",
                                        !.intent = Some(intent),
                                        !.ret = Some(GetEffectiveLimitPrice(intent))]
    /\ UNCHANGED <<env, requested, mergeSide, autoEnabled, safetyChecksPassed,
                   autoThread, stopEvent, workers, now, counters, alerts, executed,
                   positions, brokerOrders, execd, caches,
                   inflight, loops, daily, risk, state, processCalls>>

NextPrice == EffectivePrice

SpecPrice == InitPaper /\ [][NextPrice]_vars

-----------------------------------------------------------------------------
(* The dedupe store on its own *)

MaxRecords == 3     \* lines of the dedupe ledger file

\* signal identities a caller may pass; "" is the empty identity
SignalKeys == {"", "p1", "p2", "p3"}

\* a call of dedupe_store.mark_executed, on any identity, executed or not
MarkExec ==
    /\ Len(executed) < MaxRecords
    /\ \E postId \in SignalKeys, mode \in {"paper", "live"},
          status \in {"SIMULATED", "ERROR"} :
          /\ executed' = MarkExecuted(postId, mode, status)
          /\ last' = [BaseReport EXCEPT !.op = "mark_executed", !.post_id = postId,
                                        !.dedupe_written = postId # ""]
    /\ UNCHANGED <<env, requested, mergeSide, autoEnabled, safetyChecksPassed,
                   autoThread, stopEvent, workers, now, counters, alerts,
                   positions, brokerOrders, execd, caches,
                   inflight, loops, daily, risk, state, processCalls>>

\* a call of dedupe_store.is_executed
ReadExecuted ==
    /\ \E postId \in SignalKeys :
          last' = [BaseReport EXCEPT !.op = "is_executed", !.post_id = postId,
                                    !.ret = Some(IsExecuted(postId))]
    /\ UNCHANGED <<env, requested, mergeSide, autoEnabled, safetyChecksPassed,
                   autoThread, stopEvent, workers, now, counters, alerts, executed,
                   positions, brokerOrders, execd, caches,
                   inflight, loops, daily, risk, state, processCalls>>

NextDedupe ==
    \/ MarkExec
    \/ ReadExecuted

SpecDedupe == InitPaper /\ [][NextDedupe]_vars

\* The three control-surface paths that submit orders: the auto tick,
\* POST /review/approve and POST /execute/paper/last_signal
NextSurface ==
    \/ EnableAuto
    \/ AutoTick
    \/ ApproveSignal
    \/ ExecutePaperLastSignal
    \/ IngestAlert

SpecSurface == InitApprove /\ [][NextSurface]_vars

-----------------------------------------------------------------------------
(* The execution path in two steps.  The worker thread and the request     *)
(* handlers hold no lock: between a run's checks (is_executed, signal      *)
(* lookup, intent build, preflight) and its call of execute_trade, the     *)
(* other runs may take their steps.                                        *)

MaxRuns == 2     \* runs that take part in one race

\* a caller may begin its run: it has not run yet and fewer than MaxRuns
\* other callers have
MayBegin(who) ==
    /\ inflight[who].pc = "idle"
    /\ Cardinality({w \in Callers : inflight[w].pc # "idle"}) < MaxRuns

\* the TradeIntent auto_tick builds for the signal it selects
TickIntent ==
    LET signals == ListRecentSignals(RecentSignalsLimit)
        bp == BuildIntentAndPreflight(signals[SelectSignal(signals)], "paper")
    IN IntentFromDict(Val(bp.trade_intent), "PAPER")

\* the TradeIntent approve_signal builds for a signal identity
ApproveIntent(postId, mode) ==
    LET signals == ListRecentSignals(ApproveSignalsLimit)
        found == {i \in 1..Len(signals) : signals[i].post_id = postId}
        bp == BuildIntentAndPreflight(signals[CHOOSE i \in found : \A j \in found : i <= j],
                                      mode)
    IN IntentFromDict(Val(bp.trade_intent), Val(bp.trade_intent).execution_mode)

\* auto_tick up to and including its preflight; a tick that ends there is
\* complete, one that passes is left before its call of execute_trade
TickCheck ==
    /\ workers > 0
    /\ ~stopEvent
    /\ autoEnabled
    /\ MayBegin("auto")
    /\ \E within \in BOOLEAN :
          \E o \in {TickOutcome(EXECUTION_BROKER_MODE, "ok", within)} :
             /\ autoEnabled' = o.enabled
             /\ safetyChecksPassed' = o.passed
             /\ IF o.report.exec_called
                THEN /\ inflight' = [inflight EXCEPT !["auto"] =
                                        [pc |-> "checked", post_id |-> o.report.post_id,
                                         mode |-> "paper", intent |-> Some(TickIntent),
                                         c |-> o.report.c]]
                     /\ last' = [BaseReport EXCEPT !.op = "tick_check",
                                                   !.post_id = o.report.post_id,
                                                   !.preflight_passed = TRUE,
                                                   !.dedupe_clear = TRUE]
                     /\ UNCHANGED counters
                ELSE /\ inflight' = [inflight EXCEPT !["auto"].pc = "done"]
                     /\ last' = o.report
                     /\ counters' = o.counters
    /\ UNCHANGED <<env, requested, mergeSide, autoThread, stopEvent, workers, now,
                   alerts, executed, positions, brokerOrders, execd, caches,
                   loops, daily, risk, state, processCalls>>

\* the rest of auto_tick: execute_trade, and on a success status
\* mark_executed and the counters, saved from the copy loaded at the start
TickFinish ==
    /\ inflight["auto"].pc = "checked"
    /\ \E reply \in BrokerReplies :
          LET run == inflight["auto"]
              intent == Val(run.intent)
          IN \E res \in {ExecuteTrade(intent, reply)} :
                LET ok == res.status \in SuccessStatuses(mergeSide)
                IN /\ positions' = res.positions
                   /\ executed' = IF ok THEN MarkExecuted(run.post_id, "paper", res.status)
                                  ELSE executed
                   /\ counters' = IF ok
                                  THEN [run.c EXCEPT !.trades_today = @ + 1,
                                                     !.trades_this_hour = @ + 1,
                                                     !.notional_today =
                                                         @ + TradeNotional(res, intent)]
                                  ELSE run.c
                   /\ brokerOrders' = IF res.placed THEN brokerOrders \cup {"auto"}
                                      ELSE brokerOrders
                   /\ execd' = execd \cup {run.post_id}
                   /\ last' = [BaseReport EXCEPT
                                  !.op = "tick", !.c = run.c,
                                  !.action = IF ok THEN "executed" ELSE "failed",
                                  !.post_id = run.post_id,
                                  !.ran_before = run.post_id \in execd,
                                  !.preflight_passed = TRUE, !.dedupe_clear = TRUE,
                                  !.exec_called = TRUE, !.exec_status = res.status,
                                  !.intent_mode = intent.execution_mode,
                                  !.placed = res.placed,
                                  !.dedupe_written = ok /\ run.post_id # "",
                                  !.pos_changed = res.positions # positions]
    /\ inflight' = [inflight EXCEPT !["auto"].pc = "done"]
    /\ UNCHANGED <<env, requested, mergeSide, autoEnabled, safetyChecksPassed,
                   autoThread, stopEvent, workers, now, alerts, caches, loops, daily, risk, state, processCalls>>

\* approve_signal up to and including its preflight
ApproveCheck ==
    /\ \E who \in {"approve1", "approve2"}, postId \in PostIds, mode \in {"paper", "live"} :
          /\ MayBegin(who)
          /\ \E o \in {ApproveOutcome(postId, mode, "ok")} :
                IF o.report.exec_called
                THEN /\ inflight' = [inflight EXCEPT ![who] =
                                        [pc |-> "checked", post_id |-> postId, mode |-> mode,
                                         intent |-> Some(ApproveIntent(postId, mode)),
                                         c |-> InitialCounters]]
                     /\ last' = [BaseReport EXCEPT !.op = "approve_check",
                                                   !.post_id = postId,
                                                   !.preflight_passed = TRUE,
                                                   !.dedupe_clear = TRUE]
                ELSE /\ inflight' = [inflight EXCEPT ![who].pc = "done"]
                     /\ last' = o.report
    /\ UNCHANGED <<env, requested, mergeSide, autoEnabled, safetyChecksPassed,
                   autoThread, stopEvent, workers, now, counters, alerts, executed,
                   positions, brokerOrders, execd, caches, loops, daily, risk, state, processCalls>>

\* the rest of approve_signal: execute_trade, then mark_executed whatever
\* the status
ApproveFinish ==
    /\ \E who \in {"approve1", "approve2"}, reply \in BrokerReplies :
          /\ inflight[who].pc = "checked"
          /\ LET run == inflight[who]
                 intent == Val(run.intent)
             IN \E res \in {ExecuteTrade(intent, reply)} :
                   /\ positions' = res.positions
                   /\ executed' = MarkExecuted(run.post_id, run.mode, res.status)
                   /\ brokerOrders' = IF res.placed THEN brokerOrders \cup {"approve"}
                                      ELSE brokerOrders
                   /\ execd' = execd \cup {run.post_id}
                   /\ last' = [BaseReport EXCEPT
                                  !.op = "approve", !.action = "executed",
                                  !.post_id = run.post_id,
                                  !.ran_before = run.post_id \in execd,
                                  !.preflight_passed = TRUE, !.dedupe_clear = TRUE,
                                  !.exec_called = TRUE, !.exec_status = res.status,
                                  !.intent_mode = intent.execution_mode,
                                  !.placed = res.placed, !.dedupe_written = TRUE,
                                  !.pos_changed = res.positions # positions]
          /\ inflight' = [inflight EXCEPT ![who].pc = "done"]
    /\ UNCHANGED <<env, requested, mergeSide, autoEnabled, safetyChecksPassed,
                   autoThread, stopEvent, workers, now, counters, alerts, caches,
                   loops, daily, risk, state, processCalls>>

\* One race: at most MaxRuns of the callers run, each once, in any
\* interleaving of their steps
NextRace ==
    \/ EnableAuto
    \/ IngestAlert
    \/ TickCheck
    \/ TickFinish
    \/ ApproveCheck
    \/ ApproveFinish

SpecRace == InitApprove /\ [][NextRace]_vars

-----------------------------------------------------------------------------
(* The worker loop thread by thread, with the daily summary *)

PollSeconds == 2     \* iterations of the sleep loop (AUTO_POLL_SECONDS)

\* is_within_auto_trading_window()["is_market_open"]: the first hour bucket
\* of a day stands for the trading session, the later ones for the time
\* after the close
MarketState == IF now.hour = 0 THEN "open" ELSE "closed"

\* _emit_daily_summary(date_str) at the present day; date_str = None is
\* passed as the present day
EmitDailySummary(dm, dateStr) ==
    IF dateStr = now.day /\ dm.last_summary_date = Some(dateStr) /\ dm.summary_emitted
    THEN dm
    ELSE [dm EXCEPT !.summary_emitted = IF dateStr = now.day THEN TRUE ELSE @,
                    !.emitted = Append(@, [date |-> dateStr, days |-> dm.days]),
                    !.last_summary_date = Some(dateStr)]

\* _reset_daily_metrics_if_needed(now)
ResetDailyMetricsIfNeeded(dm) ==
    IF dm.last_summary_date = Some(now.day) THEN dm
    ELSE LET d1 == IF ~IsNone(dm.last_summary_date) /\ ~dm.summary_emitted
                   THEN EmitDailySummary(dm, Val(dm.last_summary_date))
                   ELSE dm
         IN [d1 EXCEPT !.last_summary_date = Some(now.day),
                       !.summary_emitted = FALSE,
                       !.last_market_state = "",
                       !.days = {}]

\* _daily_metrics after one auto_tick: a tick that fails its safety
\* validation returns before the reset
DailyAfterTick(dm) ==
    IF ~ValidateAutoModeSafety(env) THEN [dm EXCEPT !.ran = @ \cup {now.day}]
    ELSE [ResetDailyMetricsIfNeeded(dm) EXCEPT !.days = @ \cup {now.day},
                                               !.ran = @ \cup {now.day}]

Alive == {t \in Threads : loops.pc[t] # "none"}

\* set_auto_enabled(True)
LoopEnable ==
    /\ ~loops.joining
    /\ workers < MaxWorkers
    /\ LET s == StartAutoThread(TRUE)
           t == CHOOSE x \in Threads \ Alive : \A y \in Threads \ Alive : x <= y
       IN /\ autoEnabled' = s.enabled
          /\ safetyChecksPassed' = s.passed
          /\ autoThread' = s.thread
          /\ stopEvent' = s.stop
          /\ workers' = s.workers
          /\ loops' = IF s.workers > workers
                      THEN [loops EXCEPT !.pc[t] = "top", !.ref = t]
                      ELSE loops
    /\ last' = [BaseReport EXCEPT !.op = "enable"]
    /\ UNCHANGED <<env, requested, mergeSide, now, counters, alerts, executed,
                   positions, brokerOrders, execd, caches, inflight, daily, risk, state, processCalls>>

\* set_auto_enabled(False) up to the join of _stop_auto_thread: the summary
\* if auto mode was enabled, then the stop event
LoopDisable ==
    /\ ~loops.joining
    /\ autoEnabled' = FALSE
    /\ daily' = IF autoEnabled THEN EmitDailySummary(daily, now.day) ELSE daily
    /\ stopEvent' = TRUE
    /\ loops' = [loops EXCEPT !.joining = loops.ref # 0]
    /\ last' = [BaseReport EXCEPT !.op = "disable", !.enabled_before = autoEnabled]
    /\ UNCHANGED <<env, requested, mergeSide, safetyChecksPassed, autoThread, workers,
                   now, counters, alerts, executed, positions, brokerOrders, execd,
                   caches, inflight, risk, state, processCalls>>

\* join(timeout=5) returns and the reference is dropped: the thread has
\* ended, or it is still inside auto_tick when the five seconds are over
\* (a sleeping thread sees the stop event within a second)
JoinReturns ==
    /\ loops.joining
    /\ loops.pc[loops.ref] \in {"none", "tick"}
    /\ autoThread' = FALSE
    /\ loops' = [loops EXCEPT !.ref = 0, !.joining = FALSE]
    /\ last' = [BaseReport EXCEPT !.op = "join",
                                  !.ret = Some(loops.pc[loops.ref] = "none")]
    /\ UNCHANGED <<env, requested, mergeSide, autoEnabled, safetyChecksPassed,
                   stopEvent, workers, now, counters, alerts, executed, positions,
                   brokerOrders, execd, caches, inflight, daily, risk, state, processCalls>>

\* _auto_loop at its while condition and, when auto mode is enabled, the
\* market-close check before auto_tick
LoopTop(t) ==
    /\ loops.pc[t] = "top"
    /\ IF stopEvent
       THEN /\ loops' = [loops EXCEPT !.pc[t] = "final"]
            /\ UNCHANGED daily
       ELSE IF autoEnabled
       THEN /\ loops' = [loops EXCEPT !.pc[t] = "tick"]
            /\ daily' = [(IF daily.last_market_state = "open" /\ MarketState = "closed"
                          THEN EmitDailySummary(daily, now.day) ELSE daily)
                         EXCEPT !.last_market_state = MarketState]
       ELSE /\ loops' = [loops EXCEPT !.pc[t] = "sleep", !.left[t] = PollSeconds]
            /\ UNCHANGED daily
    /\ last' = [BaseReport EXCEPT !.op = "loop_top", !.arg = Some(t)]
    /\ UNCHANGED <<env, requested, mergeSide, autoEnabled, safetyChecksPassed,
                   autoThread, stopEvent, workers, now, counters, alerts, executed,
                   positions, brokerOrders, execd, caches, inflight, risk, state, processCalls>>

\* the auto_tick of a thread runs to its end
LoopTick(t) ==
    /\ loops.pc[t] = "tick"
    /\ \E reply \in BrokerReplies, within \in BOOLEAN :
          \E o \in {TickOutcome(EXECUTION_BROKER_MODE, reply, within)} :
             /\ autoEnabled' = o.enabled
             /\ safetyChecksPassed' = o.passed
             /\ counters' = o.counters
             /\ executed' = o.executed
             /\ positions' = o.positions
             /\ brokerOrders' = IF o.report.placed THEN brokerOrders \cup {"auto"}
                                ELSE brokerOrders
             /\ execd' = IF o.report.exec_called THEN execd \cup {o.report.post_id}
                         ELSE execd
             /\ last' = [o.report EXCEPT !.arg = Some(t)]
    /\ daily' = DailyAfterTick(daily)
    /\ loops' = [loops EXCEPT !.pc[t] = "sleep", !.left[t] = PollSeconds]
    /\ UNCHANGED <<env, requested, mergeSide, autoThread, stopEvent, workers, now,
                   alerts, caches, inflight, risk, state, processCalls>>

\* variant: the sleep loop does not look at the stop event
SleepStepUnchecked(left, stop) ==
    IF left > 1 THEN [pc |-> "sleep", left |-> left - 1]
    ELSE [pc |-> "top", left |-> 0]

\* one iteration of the sleep loop: break on the stop event, else sleep one
\* second; the loop ends after PollSeconds iterations
SleepStep(left, stop) ==
    IF stop THEN [pc |-> "top", left |-> 0]
    ELSE IF left > 1 THEN [pc |-> "sleep", left |-> left - 1]
    ELSE [pc |-> "top", left |-> 0]

LoopSleep(t) ==
    /\ loops.pc[t] = "sleep"
    /\ loops' = [loops EXCEPT !.pc[t] = SleepStep(loops.left[t], stopEvent).pc,
                              !.left[t] = SleepStep(loops.left[t], stopEvent).left]
    /\ last' = [BaseReport EXCEPT !.op = "loop_sleep", !.arg = Some(t)]
    /\ UNCHANGED <<env, requested, mergeSide, autoEnabled, safetyChecksPassed,
                   autoThread, stopEvent, workers, now, counters, alerts, executed,
                   positions, brokerOrders, execd, caches, inflight, daily, risk, state, processCalls>>

\* after the while loop: the final _emit_daily_summary(), then the thread ends
LoopFinal(t) ==
    /\ loops.pc[t] = "final"
    /\ daily' = EmitDailySummary(daily, now.day)
    /\ loops' = [loops EXCEPT !.pc[t] = "none"]
    /\ workers' = workers - 1
    /\ last' = [BaseReport EXCEPT !.op = "loop_final", !.arg = Some(t)]
    /\ UNCHANGED <<env, requested, mergeSide, autoEnabled, safetyChecksPassed,
                   autoThread, stopEvent, now, counters, alerts, executed,
                   positions, brokerOrders, execd, caches, inflight, risk, state, processCalls>>

LoopStep(t) ==
    \/ LoopTop(t)
    \/ LoopTick(t)
    \/ LoopSleep(t)
    \/ LoopFinal(t)

\* the environment at its defaults (DRY_RUN on), one entry signal in the
\* alerts file
InitLoop ==
    /\ env = EnvOf("unset", "unset", "unset", "unset", "unset", "unset", NoCaps)
    /\ requested = "paper"
    /\ mergeSide = "stashed"
    /\ alerts \in {<<a>> : a \in {x \in AlertSamples : x.post_id = "p2"}}
    /\ InitModules

NextLoop ==
    \/ LoopEnable
    \/ LoopDisable
    \/ JoinReturns
    \/ \E t \in Threads : LoopStep(t)
    \/ AdvanceClock

SpecLoop == InitLoop /\ [][NextLoop]_vars

-----------------------------------------------------------------------------
(* Signal selection of the tick *)

\* records of the alerts file: two entry signals, an exit signal with
\* complete leg detail, a record classified NON_SIGNAL that carries an
\* entry-like parse, and a SIGNAL whose type is UNKNOWN
SelectSamples ==
    { Alert("p1", "SIGNAL", Some(Parsed("SPY", "LONG_STOCK", "", <<>>, 0, 0, Some(2)))),
      Alert("p2", "SIGNAL", Some(Parsed("SPY", "CALL", "", <<Leg500>>, 0, 200, None))),
      Alert("p3", "SIGNAL", Some(Parsed("SPY", "EXIT", "exit", <<Leg500>>, 0, 0, None))),
      Alert("n1", "NON_SIGNAL", Some(Parsed("SPY", "LONG_STOCK", "", <<>>, 0, 0, Some(2)))),
      Alert("u1", "SIGNAL", Some(Parsed("SPY", "", "", <<>>, 0, 0, None))) }

\* window sizes of list_recent_signals: windows shorter than the file, and
\* the window of auto_tick
SelectLimits == {1, 2, RecentSignalsLimit}

IngestSelect ==
    /\ Len(alerts) < MaxAlerts
    /\ \E a \in SelectSamples :
          /\ \A i \in 1..Len(alerts) : alerts[i] # a
          /\ alerts' = Append(alerts, a)
    /\ last' = BaseReport
    /\ UNCHANGED <<env, requested, mergeSide, autoEnabled, safetyChecksPassed,
                   autoThread, stopEvent, workers, now, counters, executed,
                   positions, brokerOrders, execd, caches, inflight, loops, daily, risk, state, processCalls>>

\* list_recent_signals(limit) followed by the selection loop of auto_tick;
\* ret is the post_id selected, "" for none
SelectRecent ==
    /\ \E limit \in SelectLimits :
          LET signals == ListRecentSignals(limit)
              sel == SelectSignal(signals)
          IN last' = [BaseReport EXCEPT !.op = "select", !.arg = Some(limit),
                                        !.did_select = sel # 0,
                                        !.ret = Some(IF sel = 0 THEN ""
                                                     ELSE signals[sel].post_id)]
    /\ UNCHANGED <<env, requested, mergeSide, autoEnabled, safetyChecksPassed,
                   autoThread, stopEvent, workers, now, counters, alerts, executed,
                   positions, brokerOrders, execd, caches, inflight, loops, daily, risk, state, processCalls>>

InitSelect ==
    /\ env = EnvOf("unset", "unset", "unset", "unset", "true", "unset", NoCaps)
    /\ requested = "paper"
    /\ mergeSide = "stashed"
    /\ alerts = <<>>
    /\ InitModules

NextSelect ==
    \/ EnableAuto
    \/ AutoTick
    \/ ApproveSignal
    \/ IngestSelect
    \/ SelectRecent

SpecSelect == InitSelect /\ [][NextSelect]_vars

-----------------------------------------------------------------------------
(* The risk manager *)

MaxRecorded == 2     \* trades recorded and not yet exited; recorded risk, in 500 dollars

\* ParsedSignal as calculate_position_size reads it: prices and strikes in
\* cents, size_pct in percent
RiskSignal(strategy, lmin, lmax, pct, strikes) ==
    [strategy |-> strategy, limit_min |-> lmin, limit_max |-> lmax,
     size_pct |-> pct, strikes |-> strikes]

RiskSignals ==
    {RiskSignal("CALL_DEBIT_SPREAD", lmax, lmax, pct, <<50000, 50500>>) :
        lmax \in {0, 25, 250}, pct \in {0, 2, 5}}
    \cup {RiskSignal("CALL_CREDIT_SPREAD", lmin, lmin, pct, strikes) :
            lmin \in {50, 600}, pct \in {2, 5},
            strikes \in {<<>>, <<50000, 50000>>, <<50500, 50000>>}}
    \cup {RiskSignal(s, 100, 100, 5, <<>>) : s \in {"EXIT", "LONG_STOCK"}}

\* account equity in cents: negative, nothing, 1,000 and 10,000 dollars
EquitySamples == {0 - 100000, 0, 100000, 1000000}

\* dollar risk of a recorded trade, in cents
RecordedRisks == {25000, 50000}

\* ParsedSignal.spread_width
SpreadWidth(signal) ==
    IF Len(signal.strikes) >= 2
    THEN LET S == {signal.strikes[i] : i \in 1..Len(signal.strikes)}
             hi == CHOOSE x \in S : \A y \in S : y <= x
             lo == CHOOSE x \in S : \A y \in S : x <= y
         IN hi - lo
    ELSE 0

\* the strategy branches of calculate_position_size: the contracts the
\* dollar risk pays for, or the early return.  math.floor of a quotient of
\* non-negative amounts is the integer quotient.
StrategyContracts(signal, maxDollarRisk) ==
    CASE signal.strategy = "CALL_DEBIT_SPREAD" ->
           LET costPerContract == signal.limit_max * 100
           IN IF costPerContract <= 0
              THEN [done |-> TRUE, n |-> 0,
                    reason |-> "Invalid limit price for debit spread"]
              ELSE [done |-> FALSE, n |-> maxDollarRisk \div costPerContract,
                    reason |-> ""]
      [] signal.strategy = "CALL_CREDIT_SPREAD" ->
           LET width == IF SpreadWidth(signal) <= 0 THEN 500 ELSE SpreadWidth(signal)
               loss == (width - signal.limit_min) * 100
               maxLossPerContract == IF loss <= 0 THEN width * 100 ELSE loss
           IN [done |-> FALSE, n |-> maxDollarRisk \div maxLossPerContract,
               reason |-> ""]
      [] signal.strategy = "EXIT" -> [done |-> TRUE, n |-> 0, reason |-> ""]
      [] OTHER -> [done |-> TRUE, n |-> 0, reason |-> "Unknown strategy"]

\* RiskManager._check_risk_constraints: the rejection reason, "" for None
CheckRiskConstraints(m, numContracts, dollarRisk, equity) ==
    IF m.open_positions_count >= m.max_open_positions
    THEN "Max open positions limit reached"
    ELSE IF m.daily_risk_used + dollarRisk > (equity * m.max_daily_risk_pct) \div 100
         THEN "Daily risk limit would be exceeded"
         ELSE ""

\* variant: the result is not held to max_contracts_per_trade
CalculatePositionSizeUncapped(m, signal, equity) ==
    IF equity <= 0
    THEN [contracts |-> 0, reason |-> "Account equity is zero or negative", mgr |-> m]
    ELSE LET maxDollarRisk == (equity * signal.size_pct) \div 100
             s == StrategyContracts(signal, maxDollarRisk)
             rejection == CheckRiskConstraints(m, s.n, maxDollarRisk, equity)
         IN IF s.done THEN [contracts |-> 0, reason |-> s.reason, mgr |-> m]
            ELSE IF s.n <= 0
            THEN [contracts |-> 0, reason |-> "Position size too small", mgr |-> m]
            ELSE IF rejection # ""
            THEN [contracts |-> 0, reason |-> rejection, mgr |-> m]
            ELSE [contracts |-> s.n, reason |-> "", mgr |-> m]

\* RiskManager.calculate_position_size on manager m: the contracts, the
\* rejection reason ("" for None) and the manager as the call leaves it
CalculatePositionSize(m, signal, equity) ==
    IF equity <= 0
    THEN [contracts |-> 0, reason |-> "Account equity is zero or negative", mgr |-> m]
    ELSE LET maxDollarRisk == (equity * signal.size_pct) \div 100
             s == StrategyContracts(signal, maxDollarRisk)
             rejection == CheckRiskConstraints(m, s.n, maxDollarRisk, equity)
         IN IF s.done THEN [contracts |-> 0, reason |-> s.reason, mgr |-> m]
            ELSE IF s.n <= 0
            THEN [contracts |-> 0, reason |-> "Position size too small", mgr |-> m]
            ELSE IF rejection # ""
            THEN [contracts |-> 0, reason |-> rejection, mgr |-> m]
            ELSE [contracts |-> Min(s.n, m.max_contracts_per_trade),
                  reason |-> "", mgr |-> m]

\* a call of calculate_position_size
SizePosition ==
    /\ \E signal \in RiskSignals, equity \in EquitySamples :
          \E o \in {CalculatePositionSize(risk, signal, equity)} :
             /\ risk' = o.mgr
             /\ last' = [BaseReport EXCEPT
                           !.op = "calculate_position_size",
                           !.arg = Some([signal |-> signal, equity |-> equity,
                                         mgr |-> risk]),
                           !.ret = Some([contracts |-> o.contracts,
                                         reason |-> o.reason])]
    /\ UNCHANGED <<env, requested, mergeSide, autoEnabled, safetyChecksPassed,
                   autoThread, stopEvent, workers, now, counters, alerts, executed,
                   positions, brokerOrders, execd, caches,
                   inflight, loops, daily, state, processCalls>>

\* RiskManager.record_trade
RecordTrade ==
    /\ risk.open_positions_count < MaxRecorded
    /\ \E dollarRisk \in RecordedRisks :
          /\ risk.daily_risk_used + dollarRisk <= MaxRecorded * 50000
          /\ risk' = [risk EXCEPT !.daily_risk_used = @ + dollarRisk,
                                  !.open_positions_count = @ + 1]
          /\ last' = [BaseReport EXCEPT !.op = "record_trade",
                                        !.arg = Some(dollarRisk)]
    /\ UNCHANGED <<env, requested, mergeSide, autoEnabled, safetyChecksPassed,
                   autoThread, stopEvent, workers, now, counters, alerts, executed,
                   positions, brokerOrders, execd, caches,
                   inflight, loops, daily, state, processCalls>>

\* RiskManager.record_exit
RecordExit ==
    /\ risk' = [risk EXCEPT !.open_positions_count = IF @ > 0 THEN @ - 1 ELSE @]
    /\ last' = [BaseReport EXCEPT !.op = "record_exit"]
    /\ UNCHANGED <<env, requested, mergeSide, autoEnabled, safetyChecksPassed,
                   autoThread, stopEvent, workers, now, counters, alerts, executed,
                   positions, brokerOrders, execd, caches,
                   inflight, loops, daily, state, processCalls>>

\* RiskManager.reset_daily_limits
ResetDailyLimits ==
    /\ risk' = [risk EXCEPT !.daily_risk_used = 0]
    /\ last' = [BaseReport EXCEPT !.op = "reset_daily_limits"]
    /\ UNCHANGED <<env, requested, mergeSide, autoEnabled, safetyChecksPassed,
                   autoThread, stopEvent, workers, now, counters, alerts, executed,
                   positions, brokerOrders, execd, caches,
                   inflight, loops, daily, state, processCalls>>

\* a RiskManager constructed with the default limits or with tighter ones
InitRisk ==
    /\ env = EnvOf("unset", "unset", "unset", "unset", "unset", "unset", NoCaps)
    /\ requested = "paper"
    /\ mergeSide = "stashed"
    /\ alerts = <<>>
    /\ InitRest
    /\ risk \in {RiskManagerInit(c, o, MaxDailyRiskPct) :
                    c \in {2, MaxContractsPerTrade}, o \in {1, MaxOpenPositions}}

NextRisk ==
    \/ SizePosition
    \/ RecordTrade
    \/ RecordExit
    \/ ResetDailyLimits

SpecRisk == InitRisk /\ [][NextRisk]_vars

\* The worker loop with the clock standing still
NextStop ==
    \/ LoopEnable
    \/ LoopDisable
    \/ JoinReturns
    \/ \E t \in Threads : LoopStep(t)

SpecStop == InitLoop /\ [][NextStop]_vars

\* Every thread that can take a step of its code eventually takes it: a
\* running thread is scheduled and its sleep(1) returns; and its auto_tick
\* returns.  LoopTick(t) is enabled exactly while the thread is in its tick
\* and takes it out of the tick, so weak fairness of LoopTick(t) is that the
\* thread is again and again not in a tick.
SpecStopFair ==
    /\ SpecStop
    /\ \A t \in Threads : WF_vars(LoopTop(t) \/ LoopSleep(t) \/ LoopFinal(t))
    /\ \A t \in Threads : []<>(loops.pc[t] # "tick")

-----------------------------------------------------------------------------
(* The controller started on a counters file left by an earlier run *)

MaxCounted == 2     \* trades counted in a stored counters file

\* data/auto_counters.json as an earlier run left it: never written, or
\* written by the tick that counted its latest trade, at a time not after
\* the start: the hour key holds the date of the day key, and the hourly
\* count is within the daily one and is 0 only if that is
CounterFiles ==
    {InitialCounters} \cup
    {[trades_today |-> d, trades_this_hour |-> h, notional_today |-> d * 20000,
      last_trade_date |-> Some(k[1]), last_trade_hour |-> Some(k)] :
        d \in 0..MaxCounted, h \in 0..MaxCounted,
        k \in ({0} \X (0..MaxHour)) \cup {<<1, 0>>}}

StoredCounters == {c \in CounterFiles : c.trades_this_hour <= c.trades_today
                                         /\ (c.trades_this_hour = 0 => c.trades_today = 0)}

InitRollover ==
    /\ env = EnvOf("unset", "unset", "unset", "unset", "true", "unset", NoCaps)
    /\ requested = "paper"
    /\ mergeSide \in {"upstream", "stashed"}
    /\ alerts = <<>>
    /\ autoEnabled = TRUE
    /\ safetyChecksPassed = FALSE
    /\ autoThread = FALSE
    /\ stopEvent = FALSE
    /\ workers = 0
    /\ now = [day |-> 1, hour |-> 0]
    /\ counters \in StoredCounters
    /\ executed = <<>>
    /\ positions = <<>>
    /\ brokerOrders = {}
    /\ execd = {}
    /\ caches = NoCaches
    /\ inflight = NoRuns
    /\ loops = NoLoops
    /\ daily = InitialDaily
    /\ risk = RiskManagerInit(MaxContractsPerTrade, MaxOpenPositions, MaxDailyRiskPct)
    /\ state = NewTradeState
    /\ processCalls = NoCalls
    /\ last = BaseReport

NextRollover ==
    \/ EnableAuto
    \/ AutoTick
    \/ AdvanceClock

SpecRollover == InitRollover /\ [][NextRollover]_vars

\* The worker loop with AUTO_MODE_ENABLED unset or true in the environment
InitSkip ==
    /\ env \in {EnvOf("unset", "unset", "unset", "unset", ame, "unset", NoCaps) :
                  ame \in {"unset", "true"}}
    /\ requested = "paper"
    /\ mergeSide = "stashed"
    /\ alerts \in {<<a>> : a \in {x \in AlertSamples : x.post_id = "p2"}}
    /\ InitModules

SpecSkip == InitSkip /\ [][NextStop]_vars

\* Controller over alerts stored without a post_id: review_queue reads the
\* identity with entry.get("post_id", ""), so such an alert has the empty
\* identity
AnonSamples ==
    { Alert("", "SIGNAL", Some(Parsed("SPY", "CALL", "", <<Leg500>>, 0, 200, None))),
      Alert("", "SIGNAL", Some(Parsed("BTC", "LONG_STOCK", "", <<>>, 0, 0, Some(2)))),
      Alert("p1", "SIGNAL", Some(Parsed("SPY", "LONG_STOCK", "", <<>>, 0, 0, Some(2)))) }

IngestAnon ==
    /\ Len(alerts) < MaxAlerts
    /\ \E a \in AnonSamples :
          /\ \A i \in 1..Len(alerts) : alerts[i] # a
          /\ alerts' = Append(alerts, a)
    /\ last' = BaseReport
    /\ UNCHANGED <<env, requested, mergeSide, autoEnabled, safetyChecksPassed,
                   autoThread, stopEvent, workers, now, counters, executed,
                   positions, brokerOrders, execd, caches, inflight, loops, daily, risk, state, processCalls>>

\* a call of dedupe_store.mark_executed for the identity of a stored alert
MarkStored ==
    /\ Len(executed) < MaxRecords
    /\ \E i \in 1..Len(alerts) :
          /\ executed' = MarkExecuted(alerts[i].post_id, "paper", "ERROR")
          /\ last' = [BaseReport EXCEPT !.op = "mark_executed",
                                        !.post_id = alerts[i].post_id]
    /\ UNCHANGED <<env, requested, mergeSide, autoEnabled, safetyChecksPassed,
                   autoThread, stopEvent, workers, now, counters, alerts,
                   positions, brokerOrders, execd, caches,
                   inflight, loops, daily, risk, state, processCalls>>

\* a call of dedupe_store.is_executed for the identity of a stored alert
ReadStored ==
    /\ \E i \in 1..Len(alerts) :
          last' = [BaseReport EXCEPT !.op = "is_executed",
                                    !.post_id = alerts[i].post_id,
                                    !.ret = Some(IsExecuted(alerts[i].post_id))]
    /\ UNCHANGED <<env, requested, mergeSide, autoEnabled, safetyChecksPassed,
                   autoThread, stopEvent, workers, now, counters, alerts, executed,
                   positions, brokerOrders, execd, caches,
                   inflight, loops, daily, risk, state, processCalls>>

NextAnon ==
    \/ EnableAuto
    \/ AutoTick
    \/ IngestAnon
    \/ MarkStored
    \/ ReadStored

SpecAnon == InitSelect /\ [][NextAnon]_vars

\* The paper executor run on the intents built for EXIT signals that carry
\* complete leg detail in the alerts file
ExitSamples ==
    { Alert("x1", "SIGNAL", Some(Parsed("SPY", "EXIT", "", <<Leg500>>, 0, 200, None))),
      Alert("x2", "SIGNAL", Some(Parsed("SPY", "", "exit", <<Leg500>>, 0, 200, None))),
      Alert("x3", "SIGNAL", Some(Parsed("SPY", "CALL", "trim", <<Leg500>>, 0, 200, None))) }

IngestExit ==
    /\ Len(alerts) < MaxAlerts
    /\ \E a \in ExitSamples :
          /\ \A i \in 1..Len(alerts) : alerts[i] # a
          /\ alerts' = Append(alerts, a)
    /\ last' = BaseReport
    /\ UNCHANGED <<env, requested, mergeSide, autoEnabled, safetyChecksPassed,
                   autoThread, stopEvent, workers, now, counters, executed,
                   positions, brokerOrders, execd, caches, inflight, loops, daily, risk, state, processCalls>>

PaperEntry == PaperExecOn(EntryIntents)

\* PaperExecutor.execute on the intent built for an entry of the alerts
\* file, by review_queue.build_intent_and_preflight and the dashboard's
\* TradeIntent(**dict) or by execute_paper_last_signal's own construction
PaperExecSignal ==
    /\ \E i \in 1..Len(alerts), viaReview \in BOOLEAN :
          \E ti \in {IF viaReview
                      THEN BuildIntentAndPreflight(alerts[i], "paper").trade_intent
                      ELSE LastSignalIntent(i)} :
             /\ ~IsNone(ti)
             /\ \E intent \in {IF viaReview THEN IntentFromDict(Val(ti), "PAPER")
                                ELSE Val(ti)} :
                   /\ OpensPosition(intent) => Len(positions) < MaxPositions
                   /\ positions' = PaperExecute(intent).positions
                   /\ last' = [ExecReport("paper_signal", intent, PaperExecute(intent), "")
                                 EXCEPT !.post_id = alerts[i].post_id]
    /\ UNCHANGED <<env, requested, mergeSide, autoEnabled, safetyChecksPassed,
                   autoThread, stopEvent, workers, now, counters, alerts, executed,
                   brokerOrders, execd, caches,
                   inflight, loops, daily, risk, state, processCalls>>

NextExit ==
    \/ IngestExit
    \/ PaperEntry
    \/ PaperExecSignal

SpecExit == InitPaper /\ [][NextExit]_vars

\* The paper executor given closing intents whose metadata holds no
\* signal_type, with and without a matched_position_id
BareCloseIntents ==
    {[ci EXCEPT !.signal_type = ""] : ci \in CloseIntents}
      \cup {[BuildTradeIntent(x, "PAPER") EXCEPT !.signal_type = ""] : x \in ExitSignals}

PaperBare == PaperExecOn(BareCloseIntents)

NextBare ==
    \/ PaperExec
    \/ PaperBare

SpecBare == InitPaper /\ [][NextBare]_vars

\* The polling loop of main.py.  An alert text is known by its normalized
\* form and by how it is written (case, runs of blanks); get_alert_hash
\* lower-cases the text and joins its words with single blanks before it
\* hashes, so the hash stands for the normalized form alone.
MaxFetch == 2       \* alert texts of one fetch
MaxCalls == 2       \* calls of process_signal followed per alert hash
MaxSubmitted == 1   \* trades the polling loop's risk manager records
TrimAbove == 2      \* the hash list is trimmed when longer than this (1000 in the code)
KeepLast == 1       \* entries kept by a trim (500 in the code)

AlertTexts ==
    { [norm |-> "h1", written |-> 1], [norm |-> "h1", written |-> 2],
      [norm |-> "h2", written |-> 1], [norm |-> "h3", written |-> 1],
      [norm |-> "h4", written |-> 1] }

\* parser.get_alert_hash
GetAlertHash(text) == text.norm

\* parser.parse_alert answers a signal (whose raw_text is the text it was
\* given) or None
ParsesToSignal(text) == text.norm \in {"h1", "h2", "h3"}

Fetches == UNION {[1..n -> AlertTexts] : n \in 0..MaxFetch}

\* what process_signal does with a signal: it returns a result that records
\* no trade, returns a DRY_RUN result after risk_manager.record_trade, or
\* raises
ProcessOutcomes == {"SKIPPED", "DRY_RUN", "raise"}

\* the texts of a fetch main.py keeps as signals: hash not in the processed
\* list as it is when the fetch is read, and parsed to a signal
NewSignals(fetch) ==
    SelectSeq(fetch, LAMBDA t :
        /\ \A i \in 1..Len(state.processed_alert_hashes) :
              state.processed_alert_hashes[i] # GetAlertHash(t)
        /\ ParsesToSignal(t))

\* state.processed_alert_hashes after the hash of a processed signal is
\* appended
AppendHash(hashes, h) ==
    LET appended == Append(hashes, h)
    IN IF Len(appended) > TrimAbove
       THEN SubSeq(appended, Len(appended) - KeepLast + 1, Len(appended))
       ELSE appended

\* the loop over the signals of one fetch: process_signal is called for each
\* and the hash is recorded when the call returns
RECURSIVE ProcessSignals(_, _, _, _, _)
ProcessSignals(signals, outcomes, hashes, calls, mgr) ==
    IF signals = <<>> THEN [hashes |-> hashes, calls |-> calls, mgr |-> mgr]
    ELSE LET h == GetAlertHash(Head(signals))
             o == Head(outcomes)
             calls1 == [calls EXCEPT ![h] = @ + 1]
         IN IF o = "raise"
            THEN ProcessSignals(Tail(signals), Tail(outcomes), hashes, calls1, mgr)
            ELSE ProcessSignals(Tail(signals), Tail(outcomes), AppendHash(hashes, h), calls1,
                                IF o = "DRY_RUN"
                                THEN [mgr EXCEPT !.daily_risk_used = @ + 25000,
                                                 !.open_positions_count = @ + 1]
                                ELSE mgr)

\* one iteration of the while loop of run_polling_loop: equity tells whether
\* get_account_equity answered, due whether the daily summary is written
\* (check_and_run_daily_summary returns at once when today's summary exists;
\* the equity is read only to process signals)
PollCycle ==
    /\ \E fetch \in Fetches,
          due \in IF state.last_summary_date = Some(now.day) THEN {FALSE} ELSE BOOLEAN :
       \E equity \in IF NewSignals(fetch) = <<>> THEN {TRUE} ELSE BOOLEAN :
       \E outcomes \in IF equity THEN [1..Len(NewSignals(fetch)) -> ProcessOutcomes]
                        ELSE {<<>>} :
          \E o \in {IF equity
                    THEN ProcessSignals(NewSignals(fetch), outcomes,
                                        state.processed_alert_hashes, processCalls, risk)
                    ELSE [hashes |-> state.processed_alert_hashes,
                          calls |-> processCalls, mgr |-> risk]} :
             /\ \A h \in AlertHashes : o.calls[h] <= MaxCalls
             /\ o.mgr.open_positions_count <= MaxSubmitted
             /\ processCalls' = o.calls
             /\ risk' = IF state.last_reset_date # Some(now.day)
                        THEN [o.mgr EXCEPT !.daily_risk_used = 0] ELSE o.mgr
             /\ state' = [processed_alert_hashes |-> o.hashes,
                          last_reset_date |-> Some(now.day),
                          last_summary_date |-> IF due THEN Some(now.day)
                                                ELSE state.last_summary_date]
             /\ last' = [BaseReport EXCEPT !.op = "poll",
                                           !.exec_called = o.calls # processCalls]
    /\ UNCHANGED <<env, requested, mergeSide, autoEnabled, safetyChecksPassed,
                   autoThread, stopEvent, workers, now, counters, alerts, executed,
                   positions, brokerOrders, execd, caches, inflight, loops, daily>>

NextPoll ==
    \/ PollCycle
    \/ AdvanceClock

SpecPoll == InitPaper /\ [][NextPoll]_vars

-----------------------------------------------------------------------------
(* Properties *)

\* C1: for a non-empty signal identity S, a run of the execution path
\* (auto_tick or /review/approve) that follows an earlier run which called
\* execute_trade for S is rejected without calling execute_trade again, and
\* leaves exactly one DedupeRecord and at most one PaperPosition of origin S.
C1_IdempotentExecution ==
    (last.op \in {"tick", "approve"} /\ last.post_id # "" /\ last.ran_before)
    => /\ ~last.exec_called
       /\ RecordsFor(last.post_id) = 1
       /\ Cardinality({i \in 1..Len(positions) :
                          positions[i].source_post_id = last.post_id}) <= 1

\* C2: when the live flag is false or the dry-run flag is true, no call of
\* execute_trade, whatever the intent's mode, reaches an order placement
\* operation of the broker client.
C2_NoBrokerCallUnlessLive ==
    (~LIVE_TRADING \/ DRY_RUN) => brokerOrders = {}

\* C3: get_effective_execution_mode answers PAPER when LIVE is requested and
\* live is not allowed (live flag false or dry-run true), and answers LIVE or
\* PAPER, never DUAL, when DUAL is requested without the dual flag.
C3_ModeDowngrade ==
    last.op = "mode" =>
       /\ (GetRequestedMode(requested) = "live"
           /\ (~GetEnvBool(env.LIVE_TRADING, FALSE) \/ GetEnvBool(env.DRY_RUN, TRUE)))
          => last.effective = "paper"
       /\ (GetRequestedMode(requested) = "dual" /\ ~GetEnvBool(env.ALLOW_DUAL_MODE, FALSE))
          => last.effective \in {"live", "paper"}

C3_Witness ==
    /\ last.op = "mode" /\ ~last.for_auto
    /\ requested = "live"
    /\ GetEnvBool(env.LIVE_TRADING, FALSE) /\ GetEnvBool(env.DRY_RUN, TRUE)
    /\ last.effective = "paper"

\* C4: for a call on behalf of the auto controller (for_auto) with the
\* auto-live flag not set, the effective mode is PAPER for every requested
\* mode and every value of the other flags.
C4_AutoIsPaper ==
    (last.op = "mode" /\ last.for_auto /\ ~GetEnvBool(env.AUTO_LIVE_ENABLED, FALSE))
    => last.effective = "paper"

C4_Witness ==
    /\ last.op = "mode" /\ last.for_auto
    /\ requested = "live"
    /\ GetEnvBool(env.LIVE_TRADING, FALSE) /\ ~GetEnvBool(env.DRY_RUN, TRUE)
    /\ ~GetEnvBool(env.AUTO_LIVE_ENABLED, FALSE)
    /\ last.effective = "paper"

\* C5: every TradeIntent auto_tick hands to execute_trade has execution mode
\* PAPER, whatever the requested-mode setting, and no auto tick ever results
\* in an order placement at the broker client.
C5_AutoTickPaperOnly ==
    /\ (last.op = "tick" /\ last.exec_called) => last.intent_mode = "PAPER"
    /\ "auto" \notin brokerOrders

C5_Witness ==
    /\ last.op = "tick" /\ last.exec_called
    /\ requested = "live"
    /\ last.intent_mode = "PAPER"

\* C6: a tick on which any of the four safety invariants fails returns
\* 'blocked' without selecting or executing, and after it the enabled flag
\* is false, whether or not an earlier safety check had passed.
C6_FailClosedTick ==
    (last.op = "tick" /\ last.safety_failed)
    => /\ last.action = "blocked"
       /\ ~last.did_select /\ ~last.exec_called
       /\ autoEnabled = FALSE

\* C7: a tick that reaches the rate-limit stage with (after the rollover
\* reset) trades_today, trades_this_hour or notional_today at or over its
\* ceiling returns 'limit' and performs no selection, no execute_trade call,
\* no dedupe write and no position change.
C7_LimitTick ==
    (/\ last.op = "tick" /\ last.reached_limits
     /\ \/ last.c.trades_today >= MaxDailyTrades(env)
        \/ last.c.trades_this_hour >= MaxHourlyTrades(env)
        \/ last.c.notional_today >= MaxNotional(env))
    => /\ last.action = "limit"
       /\ ~last.did_select /\ ~last.exec_called
       /\ ~last.dedupe_written /\ ~last.pos_changed

\* C8: with fixed caps and a single controller, trades_today never exceeds
\* the daily cap and trades_this_hour never exceeds the hourly cap; a tick
\* calls execute_trade only with both counters strictly below their caps and
\* raises each counter by at most one.
C8_TradeCountsWithinCaps ==
    /\ counters.trades_today <= MaxDailyTrades(env)
    /\ counters.trades_this_hour <= MaxHourlyTrades(env)
    /\ (last.op = "tick" /\ last.exec_called)
       => /\ last.c.trades_today < MaxDailyTrades(env)
          /\ last.c.trades_this_hour < MaxHourlyTrades(env)
          /\ counters.trades_today <= last.c.trades_today + 1
          /\ counters.trades_this_hour <= last.c.trades_this_hour + 1

C8_Witness ==
    /\ last.op = "tick" /\ last.action = "limit"
    /\ last.enabled_before
    /\ counters.trades_today = MaxDailyTrades(env)
    /\ counters.last_trade_date = Some(now.day)

\* C9: with a fixed cap, notional_today never exceeds the daily notional
\* ceiling, and a tick whose trade would push the cumulative notional past
\* the ceiling is rejected before signal selection.
C9_NotionalCeiling ==
    /\ counters.notional_today <= MaxNotional(env)
    /\ ~(/\ last.op = "tick" /\ last.did_select /\ last.exec_called
         /\ last.c.notional_today + last.intent_notional > MaxNotional(env))

C11_DryRunServedByPaper ==
    (last.op = "execute" /\ DRY_RUN /\ last.valid)
    => /\ last.exec_status = "SIMULATED"
       /\ last.has_order_id /\ last.has_fill_price
       /\ ~last.placed
       /\ (Val(last.intent).signal_type = "ENTRY" => last.pos_changed)

\* intent classes of the paper executor: an entry is an intent of signal type
\* ENTRY or with an opening action, an exit one of signal type EXIT or with
\* a closing action
EntryClass(intent) ==
    intent.signal_type = "ENTRY" \/ intent.action \in {"BUY_TO_OPEN", "SELL_TO_OPEN"}

ExitClass(intent) ==
    intent.signal_type = "EXIT" \/ intent.action \in {"BUY_TO_CLOSE", "SELL_TO_CLOSE"}

HasOpenPosition(items, id) ==
    \E i \in 1..Len(items) : items[i].position_id = id /\ items[i].status = "OPEN"

\* the ledger after is the ledger before with exactly the position id turned
\* from OPEN to CLOSED
ClosedExactly(before, after, id) ==
    /\ Len(after) = Len(before)
    /\ \A i \in 1..Len(before) :
          IF before[i].position_id = id
          THEN /\ before[i].status = "OPEN" /\ after[i].status = "CLOSED"
               /\ [after[i] EXCEPT !.status = "OPEN", !.closed_at = None,
                                   !.close_intent = None] = before[i]
          ELSE after[i] = before[i]

\* the ledger after is the ledger before plus one new OPEN position
AppendedOneOpen(before, after) ==
    /\ Len(after) = Len(before) + 1
    /\ SubSeq(after, 1, Len(before)) = before
    /\ after[Len(after)].status = "OPEN"
    /\ after[Len(after)].position_id \notin IdsOf(before)

\* C12: PaperExecutor.execute on a valid ENTRY-class intent appends exactly
\* one new OPEN position and returns SIMULATED; on a valid EXIT-class intent
\* whose metadata carries the matched_position_id of an OPEN position it
\* marks exactly that position CLOSED, creates no position, and returns
\* SIMULATED.
C12_PaperExecute ==
    [][ (last'.op = "paper_execute" /\ last'.valid) =>
          LET intent == Val(last'.intent)
          IN /\ EntryClass(intent) =>
                  /\ AppendedOneOpen(positions, positions')
                  /\ last'.exec_status = "SIMULATED"
             /\ (ExitClass(intent)
                  /\ HasOpenPosition(positions, intent.matched_position_id)) =>
                  /\ ClosedExactly(positions, positions', intent.matched_position_id)
                  /\ last'.exec_status = "SIMULATED" ]_vars

\* a valid closing intent was executed by the paper executor and closed the
\* position that an earlier entry had opened
C12_Witness ==
    /\ last.op = "paper_execute" /\ last.valid /\ last.pos_changed
    /\ ExitClass(Val(last.intent))
    /\ \E i \in 1..Len(positions) :
          /\ positions[i].position_id = Val(last.intent).matched_position_id
          /\ positions[i].status = "CLOSED"

\* C13: mark_position_closed(id) returns true and changes the status from
\* OPEN to CLOSED only if an OPEN position with that id exists; for an
\* already CLOSED or unknown id it returns false and leaves every position
\* (status, closed_at, close_intent) unchanged; a CLOSED position is never
\* changed again by any operation, so it is closed once and never reopened.
C13_MarkPositionClosed ==
    [][ /\ last'.op = "mark_closed" =>
             LET id == Val(last'.arg)
             IN IF HasOpenPosition(positions, id)
                THEN last'.ret = Some(TRUE) /\ ClosedExactly(positions, positions', id)
                ELSE last'.ret = Some(FALSE) /\ positions' = positions
        /\ \A i \in 1..Len(positions) :
             positions[i].status = "CLOSED" =>
                 i <= Len(positions') /\ positions'[i] = positions[i] ]_vars

\* mark_position_closed was called with the id of a CLOSED position and
\* returned false
C13_Witness ==
    /\ last.op = "mark_closed" /\ last.ret = Some(FALSE)
    /\ \E i \in 1..Len(positions) :
          positions[i].position_id = Val(last.arg) /\ positions[i].status = "CLOSED"

\* C14: find_open_position_for_exit never returns a CLOSED position nor a
\* position whose underlying differs, case-insensitively, from the signal's
\* ticker; when no OPEN position of the ticker is left (the only one has been
\* closed) it returns none, even when positions of other tickers are OPEN.
C14_FindNeverClosedNorOtherTicker ==
    last.op = "find_exit" =>
        LET x == Val(last.arg)
            r == Val(last.ret)
        IN /\ r # 0 =>
                /\ r \in 1..Len(positions)
                /\ positions[r].status = "OPEN"
                /\ Upper(positions[r].underlying) = Upper(x.ticker)
           /\ (\A i \in 1..Len(positions) :
                   ~(positions[i].status = "OPEN"
                     /\ Upper(positions[i].underlying) = Upper(x.ticker)))
               => r = 0

\* an exit for a ticker whose only position is CLOSED resolved to none while
\* a position of another ticker was OPEN
C14_Witness ==
    /\ last.op = "find_exit" /\ last.ret = Some(0)
    /\ \E i \in 1..Len(positions) :
          /\ positions[i].status = "CLOSED"
          /\ Upper(positions[i].underlying) = Upper(Val(last.arg).ticker)
    /\ \E j \in 1..Len(positions) :
          /\ positions[j].status = "OPEN"
          /\ Upper(positions[j].underlying) # Upper(Val(last.arg).ticker)

\* the set of (expiration, strike, type) of a list of legs; the legs of one
\* signal or position in the model are pairwise distinct
LegKeySet(legs) ==
    {<<legs[i].expiration, legs[i].strike, legs[i].option_type>> : i \in 1..Len(legs)}

\* the OPEN positions of the signal's ticker, and those among them with the
\* signal's legs
OpenOfTicker(x) ==
    {i \in 1..Len(positions) :
        positions[i].status = "OPEN" /\ Upper(positions[i].underlying) = Upper(x.ticker)}

ExactOfTicker(x) ==
    {i \in OpenOfTicker(x) :
        positions[i].legs # <<>> /\ LegKeySet(positions[i].legs) = LegKeySet(x.legs)}

\* C15: for an EXIT signal with legs, find_open_position_for_exit returns an
\* OPEN position of the ticker whose set of (expiration, strike, type) legs
\* equals the signal's, whatever the order of the legs, whenever there is
\* one, even if a non-matching position was opened later; when none matches
\* (or the signal has no legs) it returns the most recently opened OPEN
\* position of the ticker.
C15_ExactLegMatchPreferred ==
    (last.op = "find_exit" /\ OpenOfTicker(Val(last.arg)) # {}) =>
        LET x == Val(last.arg)
            r == Val(last.ret)
        IN IF x.legs # <<>> /\ ExactOfTicker(x) # {}
           THEN r \in ExactOfTicker(x)
           ELSE r \in OpenOfTicker(x) /\ \A j \in OpenOfTicker(x) : j <= r

\* the position with the signal's legs, given in another order, was returned
\* although a position without them had been opened later
C15_Witness ==
    /\ last.op = "find_exit"
    /\ Val(last.ret) \in ExactOfTicker(Val(last.arg))
    /\ LegKeys(positions[Val(last.ret)].legs) # LegKeys(Val(last.arg).legs)
    /\ \E j \in OpenOfTicker(Val(last.arg)) :
          j > Val(last.ret) /\ j \notin ExactOfTicker(Val(last.arg))

\* C16: no position record is ever removed from the ledger file by
\* append_open_position or mark_position_closed, in any order, also when two
\* processes with caches of their own work on the file: the set of position
\* ids in the file only grows.
C16_LedgerOnlyGrows ==
    [][IdsOf(positions) \subseteq IdsOf(positions')]_vars

\* C17: for an OPTION or SPREAD intent with a leg missing its expiration,
\* strike, option type or side, preflight_check returns ok = false, the
\* first element of checks is the failed completeness check, and
\* blocked_reason is that check's summary, whatever the later risk, mode
\* and dedupe checks find.
C17_IncompleteLegBlockedFirst ==
    (/\ last.op = "preflight"
     /\ Val(last.intent).instrument_type \in {"OPTION", "SPREAD"}
     /\ \E i \in 1..Len(Val(last.intent).legs) :
           LET leg == Val(last.intent).legs[i]
           IN \/ IsNone(leg.expiration) \/ leg.strike < 0
              \/ leg.option_type = "" \/ leg.side = "")
    => LET res == Val(last.ret)
       IN /\ ~res.ok
          /\ Len(res.checks) >= 1
          /\ res.checks[1].name = "completeness" /\ ~res.checks[1].ok
          /\ res.blocked_reason = Some(res.checks[1].summary)

\* preflight ran on a spread whose second leg lacks a field, a later check
\* failed too, and the reason reported is the completeness failure
C17_Witness ==
    /\ last.op = "preflight"
    /\ Val(last.intent).instrument_type = "SPREAD"
    /\ Len(Val(last.intent).legs) = 2
    /\ Val(last.intent).legs[2].strike < 0
    /\ \E i \in 2..Len(Val(last.ret).checks) : ~Val(last.ret).checks[i].ok
    /\ Val(last.ret).blocked_reason = Some(<<"Leg missing strike", 2>>)

CheckNames ==
    <<"completeness", "supported_asset", "risk_mode", "risk_per_trade", "dte_guard",
      "mode_guard", "dedupe">>

\* C18: preflight_check returns ok = (every recorded check is ok);
\* blocked_reason is the summary of the first failing check in the order
\* completeness, supported asset, risk mode, risk per trade, DTE guard, mode
\* guard, dedupe, and is none exactly when ok is true; each of the seven
\* checks is recorded exactly once, also after an earlier check failed.
C18_PreflightResult ==
    last.op = "preflight" =>
        LET res == Val(last.ret)
            bad == {i \in 1..Len(res.checks) : ~res.checks[i].ok}
        IN /\ [i \in 1..Len(res.checks) |-> res.checks[i].name] = CheckNames
           /\ res.ok = (bad = {})
           /\ IsNone(res.blocked_reason) = res.ok
           /\ bad # {} =>
                res.blocked_reason =
                    Some(res.checks[CHOOSE i \in bad : \A j \in bad : i <= j].summary)

\* preflight recorded all seven checks with two of them failed, the first
\* failure not being the first check
C18_Witness ==
    /\ last.op = "preflight"
    /\ Len(Val(last.ret).checks) = 7
    /\ Val(last.ret).checks[1].ok
    /\ Cardinality({i \in 1..7 : ~Val(last.ret).checks[i].ok}) >= 2
    /\ ~IsNone(Val(last.ret).blocked_reason)

\* C19: every result of the Tradier executor with status SUBMITTED carries
\* an order id; when the broker's response to the order carries no id the
\* status is ERROR and the result has no order id.
C19_SubmittedHasOrderId ==
    last.op = "tradier_execute" =>
        /\ last.exec_status = "SUBMITTED" => last.has_order_id
        /\ (last.placed /\ last.reply = "no_id") =>
              last.exec_status = "ERROR" /\ ~last.has_order_id

\* the Tradier executor placed an option order and the broker answered
\* with an order id
C19_Witness ==
    /\ last.op = "tradier_execute"
    /\ last.placed /\ last.reply = "id"
    /\ last.exec_status = "SUBMITTED" /\ last.has_order_id

\* the intent fails the shared validation: no underlying, LIMIT or
\* STOP_LIMIT without an effective limit price, STOP or STOP_LIMIT without a
\* stop price
FailsValidation(intent) ==
    \/ intent.underlying = ""
    \/ /\ intent.order_type \in {"LIMIT", "STOP_LIMIT"}
       /\ IsNone(intent.limit_price) /\ IsNone(intent.limit_max)
    \/ intent.order_type \in {"STOP", "STOP_LIMIT"} /\ IsNone(intent.stop_price)

\* C20: execute of the paper, Tradier and historical executor on an intent
\* that fails the shared validation returns REJECTED and has no effect: no
\* position is created or closed, no broker call is made, no order counter
\* changes.
C20_RejectedWithoutEffect ==
    [][ (/\ last'.op \in {"paper_execute", "tradier_execute", "historical_execute"}
         /\ FailsValidation(Val(last'.intent)))
        => /\ last'.exec_status = "REJECTED"
           /\ positions' = positions
           /\ brokerOrders' = brokerOrders /\ ~last'.placed
           /\ ~last'.counted ]_vars

\* the paper executor rejected an invalid closing intent for a position
\* that is OPEN, and the position is still OPEN
C20_Witness ==
    /\ last.op = "paper_execute" /\ last.exec_status = "REJECTED"
    /\ FailsValidation(Val(last.intent))
    /\ HasOpenPosition(positions, Val(last.intent).matched_position_id)

\* C21: the effective limit price of a TradeIntent is its explicit limit
\* price if set, else its range maximum if set, else its range minimum if
\* set, else none.
C21_EffectiveLimitPrice ==
    last.op = "effective_price" =>
        LET intent == Val(last.intent)
        IN Val(last.ret) =
              IF ~IsNone(intent.limit_price) THEN intent.limit_price
              ELSE IF ~IsNone(intent.limit_max) THEN intent.limit_max
              ELSE IF ~IsNone(intent.limit_min) THEN intent.limit_min
              ELSE None

\* C22: no operation of the dedupe store removes or rewrites a record: the
\* ledger before a step is a prefix of the ledger after it, so a signal
\* identity that is_executed reports as executed is reported so ever after.
C22_DedupeAppendOnly ==
    [][ /\ Len(executed') >= Len(executed)
        /\ SubSeq(executed', 1, Len(executed)) = executed
        /\ \A S \in SignalKeys : IsExecuted(S) => IsExecuted(S)' ]_vars

\* is_executed answers true for an identity recorded before a later
\* mark_executed of another identity
C22_Witness ==
    /\ last.op = "is_executed"
    /\ last.post_id = "p1"
    /\ Val(last.ret) = TRUE
    /\ Len(executed) >= 2
    /\ executed[1].post_id = "p1"
    /\ executed[Len(executed)].post_id # "p1"

\* C23: on each control-surface path that submits an order (auto tick,
\* /review/approve, /execute/paper/last_signal), execute_trade is called only
\* after, in the same run, the dedupe check of the signal's identity
\* answered "not executed" and the preflight answered ok.
C23_ExecuteOnlyAfterChecks ==
    (last.op \in {"tick", "approve", "last_signal"} /\ last.exec_called) =>
        (last.dedupe_clear /\ last.preflight_passed)

\* C24: under any interleaving of one auto tick and one manual approval, or
\* of two manual approvals, for the same signal identity, execute_trade is
\* called for the identity at most once and at most one DedupeRecord of it
\* is written.
C24_OnceUnderRace ==
    /\ \A S \in PostIds : RecordsFor(S) <= 1
    /\ (last.op \in {"tick", "approve"} /\ last.exec_called) => ~last.ran_before

\* C25: under any interleaving of set_auto_enabled calls and the worker
\* loop, at most one worker loop is running and no two auto_tick executions
\* overlap in time.
C25_SingleFlight ==
    /\ Cardinality(Alive) <= 1
    /\ Cardinality({t \in Threads : loops.pc[t] = "tick"}) <= 1

\* C26: the daily summary is emitted exactly once for each calendar day on
\* which the controller ran: no two summaries carry the same date, a summary
\* reports the metrics of its own date only, and a day that ran and whose
\* metrics are no longer held has its summary.
C26_SummaryOncePerDay ==
    /\ \A i, j \in 1..Len(daily.emitted) :
          daily.emitted[i].date = daily.emitted[j].date => i = j
    /\ \A i \in 1..Len(daily.emitted) :
          daily.emitted[i].days \subseteq {daily.emitted[i].date}
    /\ \A d \in daily.ran \ daily.days :
          \E i \in 1..Len(daily.emitted) : daily.emitted[i].date = d

\* the records of the alerts file inside the window of the `limit` most
\* recent ones
Window(limit) == {i \in 1..Len(alerts) : i > Len(alerts) - limit}

\* records of the window that are SIGNAL records of the given type without
\* a DedupeRecord
Unexecuted(limit, type) ==
    {i \in Window(limit) :
        /\ alerts[i].classification = "SIGNAL"
        /\ alerts[i].parsed_signal # <<>>
        /\ ClassifySignalType(Val(alerts[i].parsed_signal)) = type
        /\ ~IsExecuted(alerts[i].post_id)}

ExecutableExits ==
    {i \in Unexecuted(RecentSignalsLimit, "EXIT") :
        \/ HasCompleteLegDetails(Val(alerts[i].parsed_signal))
        \/ FindOpenPositionForExit(Val(alerts[i].parsed_signal)) # 0}

\* C27: auto_tick is idle only when there is neither an unexecuted ENTRY
\* signal nor an unexecuted EXIT signal that has complete leg detail or
\* resolves to an open position; with no ENTRY and such an EXIT it selects
\* the EXIT and goes on to the intent build and the preflight.
C27_ExitSelectedWhenNoEntry ==
    (last.op = "tick" /\ last.action = "idle") =>
        (Unexecuted(RecentSignalsLimit, "ENTRY") = {} /\ ExecutableExits = {})

\* the newest record of a set of records of the alerts file
NewestOf(S) == CHOOSE i \in S : \A j \in S : j <= i

\* C28: the signal the selection loop of auto_tick picks is the newest
\* record, among the most recent ones the window holds, that is classified
\* SIGNAL, is of type ENTRY and has no DedupeRecord; when there is no such
\* record, nothing is selected.
C28_NewestUnexecutedEntry ==
    /\ last.op = "select" =>
          LET S == Unexecuted(Val(last.arg), "ENTRY")
          IN Val(last.ret) = IF S = {} THEN "" ELSE alerts[NewestOf(S)].post_id
    /\ (last.op = "tick" /\ last.post_id # "") =>
          LET S == {i \in Window(RecentSignalsLimit) :
                      /\ alerts[i].classification = "SIGNAL"
                      /\ alerts[i].parsed_signal # <<>>
                      /\ ClassifySignalType(Val(alerts[i].parsed_signal)) = "ENTRY"
                      /\ (~IsExecuted(alerts[i].post_id)
                          \/ (alerts[i].post_id = last.post_id /\ last.dedupe_written))}
          IN S # {} /\ alerts[NewestOf(S)].post_id = last.post_id

\* a tick passes over a newer entry signal that is already executed and
\* selects the older one
C28_Witness ==
    /\ last.op = "tick"
    /\ last.post_id = "p1"
    /\ Len(alerts) = 2
    /\ alerts[2].post_id = "p2"
    /\ IsExecuted("p2")

\* C29: calculate_position_size never returns more contracts than
\* max_contracts_per_trade; with a rejection reason it returns 0 contracts;
\* equity of zero or less is rejected, and so is any call made with
\* open_positions_count at max_open_positions or with daily_risk_used plus
\* the trade's dollar risk above equity times max_daily_risk_pct, unless an
\* earlier return already gave 0 contracts; the call leaves daily_risk_used
\* and open_positions_count as they were.
C29_PositionSizeWithinLimits ==
    last.op = "calculate_position_size" =>
        LET a == Val(last.arg)
            r == Val(last.ret)
            m == a.mgr
            dollarRisk == (a.equity * a.signal.size_pct) \div 100
        IN /\ r.contracts <= m.max_contracts_per_trade
           /\ r.contracts >= 0
           /\ r.reason # "" => r.contracts = 0
           /\ a.equity <= 0 => r.contracts = 0 /\ r.reason # ""
           /\ m.open_positions_count >= m.max_open_positions => r.contracts = 0
           /\ m.daily_risk_used + dollarRisk > (a.equity * m.max_daily_risk_pct) \div 100
                 => r.contracts = 0
           /\ r.contracts > 0 => r.reason = ""
           /\ risk.daily_risk_used = m.daily_risk_used
           /\ risk.open_positions_count = m.open_positions_count

\* a call on a manager with a trade recorded whose uncapped size is above
\* the cap returns exactly the cap
C29_Witness ==
    /\ last.op = "calculate_position_size"
    /\ Val(last.ret).contracts = risk.max_contracts_per_trade
    /\ risk.open_positions_count > 0
    /\ risk.daily_risk_used > 0
    /\ LET a == Val(last.arg)
       IN StrategyContracts(a.signal, (a.equity * a.signal.size_pct) \div 100).n
             > risk.max_contracts_per_trade

\* a step of thread t's own code
Stepped(t) == loops'.pc[t] # loops.pc[t] \/ loops'.left[t] # loops.left[t]

\* what each step of a thread may do once the stop event is set
StopObserved(t) ==
    /\ stopEvent /\ loops.pc[t] = "sleep" /\ Stepped(t) => loops'.pc[t] = "top"
    /\ stopEvent /\ loops.pc[t] = "top" /\ Stepped(t) => loops'.pc[t] = "final"
    /\ stopEvent /\ loops.pc[t] # "tick" => loops'.pc[t] # "tick"
    /\ loops.pc[t] = "tick" /\ Stepped(t) =>
          /\ loops'.pc[t] = "sleep"
          /\ last'.op = "tick"
          /\ last'.arg = Some(t)
    /\ loops.pc[t] # "none" /\ loops'.pc[t] = "none" =>
          /\ loops.pc[t] = "final"
          /\ daily' = EmitDailySummary(daily, now.day)

\* C30: with the stop event set, a sleeping thread leaves its sleep at its
\* next one-second iteration, no thread starts a tick, and a thread ends
\* only through the final summary call; a tick in flight runs to its end
\* whether or not the stop event is set; and a live thread has ended, or
\* the stop event has been cleared, some time after the stop event is set.
C30_StopEndsWorker ==
    /\ [][\A t \in Threads : StopObserved(t)]_vars
    /\ \A t \in Threads :
          (stopEvent /\ loops.pc[t] # "none") ~> (loops.pc[t] = "none" \/ ~stopEvent)

\* a thread that was stopped has made its final summary call and ended, the
\* stop event still set
C30_Witness ==
    /\ stopEvent
    /\ last.op = "loop_final"
    /\ loops.pc[Val(last.arg)] = "none"
    /\ daily.ran # {}
    /\ \E i \in 1..Len(daily.emitted) : daily.emitted[i].date = now.day

\* the three counters of a counters record
Counts(c) == <<c.trades_today, c.trades_this_hour, c.notional_today>>

\* C31: a tick that passes the safety check works with counters rolled over
\* from the stored ones: a stored day key other than the present date gives
\* trades_today, notional_today and trades_this_hour of 0; the same day with
\* another hour key gives trades_this_hour of 0 and leaves the other two;
\* with both keys at the present date and hour the three counters are the
\* stored ones.
C31_CounterRollover ==
    [][last'.op = "tick" /\ ~last'.safety_failed =>
          LET c == counters
              r == last'.c
              dayDiffers == c.last_trade_date # Some(now.day)
              hourDiffers == c.last_trade_hour # Some(<<now.day, now.hour>>)
          IN /\ dayDiffers => Counts(r) = <<0, 0, 0>>
             /\ ~dayDiffers /\ hourDiffers =>
                   Counts(r) = <<c.trades_today, 0, c.notional_today>>
             /\ ~dayDiffers /\ ~hourDiffers => Counts(r) = Counts(c)
             /\ r.last_trade_date = Some(now.day)
             /\ r.last_trade_hour = Some(<<now.day, now.hour>>)]_vars

\* a tick in a later hour of a day on which a trade was counted: the hourly
\* count is back at 0, the daily count and notional are kept
C31_Witness ==
    /\ last.op = "tick"
    /\ ~last.safety_failed
    /\ now.hour > 0
    /\ counters.last_trade_hour = Some(<<now.day, now.hour>>)
    /\ last.c.trades_today > 0
    /\ last.c.notional_today > 0
    /\ last.c.trades_this_hour = 0

\* C32: after a tick or an approval whose execution result is REJECTED or
\* ERROR the signal has no DedupeRecord and the trade counters are the ones
\* the operation started with.
C32_FailedNotRecorded ==
    /\ last.op \in {"tick", "approve"}
    /\ last.exec_called
    /\ last.exec_status \in {"REJECTED", "ERROR"}
    => /\ ~last.dedupe_written
       /\ ~IsExecuted(last.post_id)
       /\ last.op = "tick" => /\ counters.trades_today = last.c.trades_today
                              /\ counters.trades_this_hour = last.c.trades_this_hour

\* C33: a tick that passes the safety checks with the enabled flag false
\* returns 'skip' and has not looked at the rate limits, selected a signal
\* or executed one.
C33_DisabledTickSkips ==
    (last.op = "tick" /\ ~last.safety_failed /\ ~last.enabled_before) =>
        /\ last.action = "skip"
        /\ ~last.reached_limits
        /\ ~last.did_select
        /\ ~last.exec_called

\* C34: the mode_guard check of a preflight is ok for paper always, for
\* live exactly when live trading is allowed and for dual exactly when dual
\* trading is allowed, whatever the requested-mode setting is.
C34_ModeGuard ==
    last.op = "preflight" =>
        LET checks == Val(last.ret).checks
            guard == {i \in 1..Len(checks) : checks[i].name = "mode_guard"}
        IN \A i \in guard :
              checks[i].ok = (CASE last.intent_mode = "paper" -> TRUE
                                [] last.intent_mode = "live" -> IsLiveAllowed(env)
                                [] last.intent_mode = "dual" -> IsDualAllowed(env))

\* C35: for an OPTION or SPREAD intent with no legs the completeness check
\* is ok only if the intent is an EXIT with a matched position.
C35_ZeroLegCompleteness ==
    last.op = "preflight" =>
        LET ti == Val(last.intent)
            checks == Val(last.ret).checks
        IN (ti.instrument_type \in {"OPTION", "SPREAD"} /\ ti.legs = <<>>) =>
              \A i \in 1..Len(checks) :
                 (checks[i].name = "completeness" /\ checks[i].ok) =>
                     (ti.signal_type = "EXIT" /\ ti.matched_position_id # 0)

\* C36: a tick that takes up a signal takes up the newest unexecuted ENTRY
\* signal of the alerts file as it is when the tick starts, and calls
\* execute_trade for no other signal: as long as that signal has no
\* DedupeRecord and no newer ENTRY signal has arrived, every tick takes up
\* the same signal and no older unexecuted signal is executed by a tick.
C36_NewestBlocksOlder ==
    [][last'.op = "tick" =>
          LET S == Unexecuted(RecentSignalsLimit, "ENTRY")
          IN /\ last'.post_id # "" =>
                   /\ S # {}
                   /\ last'.post_id = alerts[NewestOf(S)].post_id
             /\ \A i \in S :
                   (i # NewestOf(S) /\ alerts[i].post_id # alerts[NewestOf(S)].post_id) =>
                       /\ (alerts[i].post_id \in execd') = (alerts[i].post_id \in execd)
                       /\ ~(last'.exec_called /\ last'.post_id = alerts[i].post_id)
                       /\ IsExecuted(alerts[i].post_id)' = IsExecuted(alerts[i].post_id)]_vars

\* a tick has taken up, for the second time, the newest entry signal, whose
\* execution fails, while an older entry signal waits unexecuted and untried
C36_Witness ==
    /\ last.op = "tick"
    /\ last.exec_called
    /\ last.action = "failed"
    /\ last.ran_before
    /\ Len(alerts) = 2
    /\ alerts[2].post_id = last.post_id
    /\ alerts[1].post_id \notin execd
    /\ Unexecuted(RecentSignalsLimit, "ENTRY") = {1, 2}

\* C37: a signal with the empty identity is never recorded as executed and
\* passes the dedupe gates on every tick: is_executed("") answers false in
\* every state, mark_executed("") leaves the ledger as it is, and a tick that
\* takes up such a signal is never skipped, has the dedupe check of its
\* preflight ok, and is stopped only by another preflight check.
C37_EmptyIdentityNeverDeduped ==
    [][ /\ ~IsExecuted("")'
        /\ \A i \in 1..Len(executed') : executed'[i].post_id # ""
        /\ (last'.op = "mark_executed" /\ last'.post_id = "") => executed' = executed
        /\ (last'.op = "is_executed" /\ last'.post_id = "") => Val(last'.ret) = FALSE
        /\ (last'.op = "tick" /\ last'.did_select /\ last'.action # "idle"
              /\ last'.post_id = "") =>
              LET signals == ListRecentSignals(RecentSignalsLimit)
                  entry == signals[SelectSignal(signals)]
                  p == Val(entry.parsed_signal)
                  checks == PreflightChecks(p, BuildTradeIntent(p, "PAPER"), "paper", "")
              IN /\ last'.action # "skip"
                 /\ checks[Len(checks)].name = "dedupe"
                 /\ checks[Len(checks)].ok
                 /\ last'.exec_called = (\A i \in 1..Len(checks) : checks[i].ok)
                 /\ ~last'.dedupe_written
                 /\ executed' = executed ]_vars

\* a tick has taken up a signal with the empty identity and called
\* execute_trade for it a second time, after mark_executed("") was called
C37_Witness ==
    /\ last.op = "tick"
    /\ last.did_select
    /\ last.post_id = ""
    /\ last.action # "idle"
    /\ last.exec_called
    /\ last.ran_before
    /\ ~IsExecuted("")
    /\ Len(executed) > 0

\* the paper executor has run on the intent of an EXIT signal of the alerts
\* file that has complete leg detail, and the intent passed validation
ExecutedExitWithLegs ==
    /\ last.op = "paper_signal"
    /\ last.valid
    /\ \E i \in 1..Len(alerts) :
          /\ alerts[i].post_id = last.post_id
          /\ ClassifySignalType(Val(alerts[i].parsed_signal)) = "EXIT"
          /\ HasCompleteLegDetails(Val(alerts[i].parsed_signal))

\* C38: an EXIT signal with complete leg detail is built into an intent
\* without a matched_position_id, and executing it through the paper
\* executor returns SIMULATED and leaves the position ledger as it was.
C38_ExitWithLegsChangesNothing ==
    ExecutedExitWithLegs =>
        /\ Val(last.intent).matched_position_id = 0
        /\ last.exec_status = "SIMULATED"
        /\ ~last.pos_changed

\* C39: the paper executor treats an intent whose metadata has no
\* signal_type as ENTRY: executing a valid BUY_TO_CLOSE or SELL_TO_CLOSE
\* intent without signal_type appends one new OPEN position to the ledger
\* and closes none, whether or not it names a matched position.
C39_NoSignalTypeIsEntry ==
    [][ (/\ last'.op = "paper_execute"
         /\ last'.valid
         /\ Val(last'.intent).signal_type = ""
         /\ Val(last'.intent).action \in {"BUY_TO_CLOSE", "SELL_TO_CLOSE"})
        => /\ last'.exec_status = "SIMULATED"
           /\ Len(positions') = Len(positions) + 1
           /\ positions'[Len(positions')].status = "OPEN"
           /\ SubSeq(positions', 1, Len(positions)) = positions ]_vars

\* a closing intent without signal_type that names an OPEN position has been
\* executed: the position it names is still OPEN and a second one was opened
C39_Witness ==
    /\ last.op = "paper_execute"
    /\ last.valid
    /\ Val(last.intent).signal_type = ""
    /\ Val(last.intent).action \in {"BUY_TO_CLOSE", "SELL_TO_CLOSE"}
    /\ Val(last.intent).matched_position_id # 0
    /\ Len(positions) = 2
    /\ positions[2].status = "OPEN"
    /\ \E i \in 1..Len(positions) :
          /\ positions[i].position_id = Val(last.intent).matched_position_id
          /\ positions[i].status = "OPEN"

\* C40: in the polling loop each distinct alert, by the hash of its
\* normalized text, is passed to process_signal at most once over the
\* lifetime of the persisted state.
C40_ProcessedAtMostOnce ==
    \A h \in AlertHashes : processCalls[h] <= 1

====
